---- MODULE Spec2Model ----
(***************************************************************************)
(* A state-machine model of the backend-agnostic core of minigbm:          *)
(*   - the format layout resolver        (helpers.c)                       *)
(*   - the combination registry          (helpers.c, vc4.c)                *)
(*   - the DRM handle reference ledger   (drm_helpers.c)                   *)
(*   - the mapping cache                 (helpers.c)                       *)
(* Every uint32_t value the bounded inputs produce stays far below 2^31,   *)
(* where C's unsigned arithmetic and integer arithmetic agree; a counter    *)
(* decremented at 0 (2^32 - 1 in C) is held as -1, its two's complement.   *)
(* A bit mask of usage flags is represented by the set of its set bits     *)
(* (| is \cup, & is \cap).                                                 *)
(***************************************************************************)
EXTENDS Integers, Sequences, FiniteSets, TLC

VARIABLES
    bos,           \* struct bo, per buffer object: meta + handles
    buffer_table,  \* drv->buffer_table: handle -> stored count, if present
    kernel,        \* the DRM file's GEM side: dma-buf -> handle, open handles
    mappings,      \* drv->mappings: ordered array of struct mapping
    vmas,          \* the heap of struct vma, by address
    combos,        \* drv->combos: ordered array of struct combination
    priv,          \* drv->priv: the backend's private data
    ndebug,        \* whether the build compiles assert() out
    aborted,       \* an assert() failed and the process was aborted
    last           \* the last call made: its name, arguments and results

vars == <<bos, buffer_table, kernel, mappings, vmas, combos, priv, ndebug, aborted, last>>

(***************************************************************************)
(* Bounds of the model.                                                    *)
(***************************************************************************)
MaxStride == 2
MaxHeight == 3
MaxPad == 1

(***************************************************************************)
(* Program constants.                                                      *)
(***************************************************************************)
DRV_MAX_PLANES == 4
\* the null pointer, and what it becomes where an int is expected
NULL == 0

Planes == 1..DRV_MAX_PLANES
BoIds == {"bo1", "bo2"}

\* util.h: DIV_ROUND_UP(n, d) is (((n) + (d)-1) / (d)), in uint32_t arithmetic
DIV_ROUND_UP(n, d) == (n + d - 1) \div d

\* util.h: ALIGN(A, B) is (((A) + (B)-1) & ~((B)-1)), B a power of two
ALIGN(a, b) == (a + b - 1) - ((a + b - 1) % b)

(***************************************************************************)
(* The layout catalog.                                                     *)
(***************************************************************************)
DRM_FORMAT_YVU420 == "YVU420"
DRM_FORMAT_YVU420_ANDROID == "YVU420_ANDROID"
DRM_FORMAT_NV12 == "NV12"
DRM_FORMAT_NV21 == "NV21"
DRM_FORMAT_P010 == "P010"
DRM_FORMAT_R8 == "R8"
DRM_FORMAT_R16 == "R16"
DRM_FORMAT_RGB565 == "RGB565"
DRM_FORMAT_RGB888 == "RGB888"
DRM_FORMAT_ARGB8888 == "ARGB8888"
DRM_FORMAT_XRGB8888 == "XRGB8888"
DRM_FORMAT_ABGR8888 == "ABGR8888"
DRM_FORMAT_XBGR8888 == "XBGR8888"
DRM_FORMAT_ABGR16161616F == "ABGR16161616F"
\* a format code with no case in layout_from_format
DRM_FORMAT_NONE == "NONE"

Packed1bppFormats == {"BGR233", "C8", DRM_FORMAT_R8, "RGB332"}

Packed2bppFormats ==
    {DRM_FORMAT_R16, "ABGR1555", "ABGR4444", "ARGB1555", "ARGB4444", "BGR565",
     "BGRA4444", "BGRA5551", "BGRX4444", "BGRX5551", "GR88", "RG88",
     DRM_FORMAT_RGB565, "RGBA4444", "RGBA5551", "RGBX4444", "RGBX5551", "UYVY",
     "VYUY", "XBGR1555", "XBGR4444", "XRGB1555", "XRGB4444", "YUYV", "YVYU",
     "MTISP_SXYZW10"}

Packed3bppFormats == {"BGR888", DRM_FORMAT_RGB888}

Packed4bppFormats ==
    {"ABGR2101010", DRM_FORMAT_ABGR8888, "ARGB2101010", DRM_FORMAT_ARGB8888,
     "AYUV", "BGRA1010102", "BGRA8888", "BGRX1010102", "BGRX8888",
     "RGBA1010102", "RGBA8888", "RGBX1010102", "RGBX8888", "XBGR2101010",
     DRM_FORMAT_XBGR8888, "XRGB2101010", DRM_FORMAT_XRGB8888}

Packed8bppFormats == {DRM_FORMAT_ABGR16161616F}

\* struct planar_layout; array slots past num_planes are zero-initialised
PackedLayout(bpp) ==
    [num_planes |-> 1,
     horizontal_subsampling |-> <<1, 0, 0, 0>>,
     vertical_subsampling |-> <<1, 0, 0, 0>>,
     bytes_per_pixel |-> <<bpp, 0, 0, 0>>]

biplanar_yuv_420_layout ==
    [num_planes |-> 2,
     horizontal_subsampling |-> <<1, 2, 0, 0>>,
     vertical_subsampling |-> <<1, 2, 0, 0>>,
     bytes_per_pixel |-> <<1, 2, 0, 0>>]

triplanar_yuv_420_layout ==
    [num_planes |-> 3,
     horizontal_subsampling |-> <<1, 2, 2, 0>>,
     vertical_subsampling |-> <<1, 2, 2, 0>>,
     bytes_per_pixel |-> <<1, 1, 1, 0>>]

biplanar_yuv_p010_layout ==
    [num_planes |-> 2,
     horizontal_subsampling |-> <<1, 2, 0, 0>>,
     vertical_subsampling |-> <<1, 2, 0, 0>>,
     bytes_per_pixel |-> <<2, 4, 0, 0>>]

\* the NULL pointer layout_from_format returns for an unknown format
NULL_LAYOUT == [num_planes |-> 0]

layout_from_format(format) ==
    CASE format \in Packed1bppFormats -> PackedLayout(1)
      [] format \in Packed2bppFormats -> PackedLayout(2)
      [] format \in {DRM_FORMAT_YVU420, DRM_FORMAT_YVU420_ANDROID} -> triplanar_yuv_420_layout
      [] format \in {DRM_FORMAT_NV12, DRM_FORMAT_NV21} -> biplanar_yuv_420_layout
      [] format = DRM_FORMAT_P010 -> biplanar_yuv_p010_layout
      [] format \in Packed3bppFormats -> PackedLayout(3)
      [] format \in Packed4bppFormats -> PackedLayout(4)
      [] format \in Packed8bppFormats -> PackedLayout(8)
      [] OTHER -> NULL_LAYOUT

drv_num_planes_from_format(format) ==
    IF layout_from_format(format) # NULL_LAYOUT
    THEN layout_from_format(format).num_planes
    ELSE 0

\* planes are numbered from 0 in the code and held at index plane + 1 here
drv_height_from_format(format, height, plane) ==
    DIV_ROUND_UP(height, layout_from_format(format).vertical_subsampling[plane + 1])

drv_size_from_format(format, stride, height, plane) ==
    stride * drv_height_from_format(format, height, plane)

\* the chroma stride halved without rounding up
SubsampleStrideRoundedDown(stride, format, plane) ==
    IF plane # 0 /\ format \in {DRM_FORMAT_YVU420, DRM_FORMAT_YVU420_ANDROID}
    THEN stride \div 2
    ELSE stride

subsample_stride(stride, format, plane) ==
    IF plane # 0 /\ format \in {DRM_FORMAT_YVU420, DRM_FORMAT_YVU420_ANDROID}
    THEN DIV_ROUND_UP(stride, 2)
    ELSE stride

(***************************************************************************)
(* struct bo.                                                              *)
(***************************************************************************)
ZeroPlanes == <<0, 0, 0, 0>>

\* a buffer object as drv_bo_new leaves it for the given format and size
NewBo(format, width, height) ==
    [format |-> format, width |-> width, height |-> height,
     num_planes |-> drv_num_planes_from_format(format),
     strides |-> ZeroPlanes, sizes |-> ZeroPlanes, offsets |-> ZeroPlanes,
     total_size |-> 0, tiling |-> 0, handles |-> ZeroPlanes, live |-> FALSE]

\* the loop with offsets[p] stored after the offset was advanced
RECURSIVE LayoutLoopOffsetAfter(_, _, _, _, _, _, _)
LayoutLoopOffsetAfter(bo, p, offset, stride, aligned_height, format, padding) ==
    IF p >= drv_num_planes_from_format(format)
    THEN [bo EXCEPT !.total_size = offset]
    ELSE LET st == subsample_stride(stride, format, p)
             sz == drv_size_from_format(format, st, aligned_height, p) + padding[p + 1]
         IN LayoutLoopOffsetAfter(
                [bo EXCEPT !.strides[p + 1] = st,
                           !.sizes[p + 1] = sz,
                           !.offsets[p + 1] = offset + sz],
                p + 1, offset + sz, stride, aligned_height, format, padding)

\* the for loop of drv_bo_from_format_and_padding, from plane p on
RECURSIVE LayoutLoop(_, _, _, _, _, _, _)
LayoutLoop(bo, p, offset, stride, aligned_height, format, padding) ==
    IF p >= drv_num_planes_from_format(format)
    THEN [bo EXCEPT !.total_size = offset]
    ELSE LET st == subsample_stride(stride, format, p)
             sz == drv_size_from_format(format, st, aligned_height, p) + padding[p + 1]
         IN LayoutLoop(
                [bo EXCEPT !.strides[p + 1] = st,
                           !.sizes[p + 1] = sz,
                           !.offsets[p + 1] = offset],
                p + 1, offset + sz, stride, aligned_height, format, padding)

\* the assert()s of drv_bo_from_format_and_padding
LayoutAssertFails(bo, stride, aligned_height, format) ==
    \/ drv_num_planes_from_format(format) = 0
    \/ /\ format = DRM_FORMAT_YVU420_ANDROID
       /\ (aligned_height # bo.height \/ stride # ALIGN(stride, 32))

\* the layout with the running offset started at the buffer's old total
LayoutFromPreviousTotal(bo, stride, aligned_height, format, padding) ==
    [bo |-> LayoutLoop(bo, 0, bo.total_size, stride, aligned_height, format, padding),
     ret |-> 0]

\* the result of the call: the buffer object and the value returned
drv_bo_from_format_and_padding(bo, stride, aligned_height, format, padding) ==
    [bo |-> LayoutLoop(bo, 0, 0, stride, aligned_height, format, padding), ret |-> 0]

drv_bo_from_format(bo, stride, aligned_height, format) ==
    drv_bo_from_format_and_padding(bo, stride, aligned_height, format, ZeroPlanes)

(***************************************************************************)
(* Inputs of the layout resolver.                                          *)
(***************************************************************************)
LayoutFormats ==
    {DRM_FORMAT_R8, DRM_FORMAT_R16, DRM_FORMAT_RGB888, DRM_FORMAT_XRGB8888,
     DRM_FORMAT_ABGR16161616F, DRM_FORMAT_NV12, DRM_FORMAT_NV21, DRM_FORMAT_P010,
     DRM_FORMAT_YVU420, DRM_FORMAT_YVU420_ANDROID, DRM_FORMAT_NONE}
Strides == (1..MaxStride) \cup {32 * k : k \in 1..MaxStride}
Heights == 1..MaxHeight
Paddings == {[p \in Planes |-> k * p] : k \in 0..MaxPad}
LayoutBos == {"bo1"}
\* one format per plane count, for the buffer objects of the ledger
BoFormats == {DRM_FORMAT_XRGB8888, DRM_FORMAT_NV12, DRM_FORMAT_YVU420}

NoCall == [op |-> "none"]

(***************************************************************************)
(* Initial states.  Every specification starts from a driver instance with *)
(* an empty registry, ledger and mapping cache; it differs in the buffer   *)
(* objects it starts with.                                                 *)
(***************************************************************************)
MaxDmaBufs == 2
\* the dma-bufs a descriptor can name; a GEM handle is a small positive id
DmaBufs == 1..MaxDmaBufs
Handles == 0..(MaxDmaBufs + 1)
\* a key the hash table does not hold
NoEntry == [present |-> FALSE, value |-> 0]

EmptyDriver ==
    /\ buffer_table = [h \in Handles |-> NoEntry]
    /\ kernel = [d \in DmaBufs |-> 0]
    /\ mappings = <<>>
    /\ vmas = <<>>
    /\ combos = <<>>
    /\ priv = NULL
    /\ aborted = FALSE
    /\ last = NoCall

InitLayout ==
    /\ EmptyDriver
    /\ ndebug \in BOOLEAN
    /\ bos = [b \in BoIds |-> NewBo(DRM_FORMAT_XRGB8888, 1, 1)]

(***************************************************************************)
(* The layout resolver's calls.                                            *)
(***************************************************************************)
\* drv_bo_new: a zeroed struct bo for a format the catalog knows.  A buffer
\* object is laid out once, by the create or import that follows drv_bo_new.
DrvBoNew ==
    \E b \in LayoutBos, format \in BoFormats, h \in Heights :
        /\ ~aborted
        /\ bos' = [bos EXCEPT ![b] = NewBo(format, h, h)]
        /\ last' = [op |-> "drv_bo_new", bo |-> b]
        /\ UNCHANGED <<buffer_table, kernel, mappings, vmas, combos, priv, ndebug, aborted>>

LayoutCall(b, name, stride, aligned_height, format, padding) ==
    /\ ~aborted
    /\ last.op = "drv_bo_new" /\ last.bo = b
    /\ IF ~ndebug /\ LayoutAssertFails(bos[b], stride, aligned_height, format)
       THEN /\ aborted' = TRUE
            /\ UNCHANGED bos
            /\ last' = [op |-> "abort", in |-> name, bo |-> b, stride |-> stride,
                        aligned_height |-> aligned_height, format |-> format,
                        padding |-> padding]
       ELSE LET r == drv_bo_from_format_and_padding(bos[b], stride, aligned_height,
                                                    format, padding)
            IN /\ bos' = [bos EXCEPT ![b] = r.bo]
               /\ last' = [op |-> name, bo |-> b, stride |-> stride,
                           aligned_height |-> aligned_height, format |-> format,
                           padding |-> padding, ret |-> r.ret]
               /\ UNCHANGED aborted
    /\ UNCHANGED <<buffer_table, kernel, mappings, vmas, combos, priv, ndebug>>

DrvBoFromFormatAndPadding ==
    \E b \in LayoutBos, stride \in Strides, h \in Heights,
       format \in LayoutFormats, padding \in Paddings :
        LayoutCall(b, "drv_bo_from_format_and_padding", stride, h, format, padding)

DrvBoFromFormat ==
    \E b \in LayoutBos, stride \in Strides, h \in Heights, format \in LayoutFormats :
        LayoutCall(b, "drv_bo_from_format", stride, h, format, ZeroPlanes)

NextLayout == DrvBoNew \/ DrvBoFromFormatAndPadding \/ DrvBoFromFormat

SpecLayout == InitLayout /\ [][NextLayout]_vars

(***************************************************************************)
(* Claims about the layout resolver.                                       *)
(***************************************************************************)
RECURSIVE SumSizes(_, _)
SumSizes(sizes, n) == IF n = 0 THEN 0 ELSE sizes[n] + SumSizes(sizes, n - 1)

IsLayoutCall ==
    /\ last.op \in {"drv_bo_from_format_and_padding", "drv_bo_from_format"}
    /\ last.ret = 0

\* C1: after drv_bo_from_format_and_padding or drv_bo_from_format on a
\* supported format, offsets[0] is 0, offsets[p] is the sum of the sizes of
\* the planes before p, and total_size is the sum of the sizes of all planes.
C1_OffsetsAreSums ==
    (IsLayoutCall /\ drv_num_planes_from_format(last.format) > 0) =>
        LET bo == bos[last.bo]
            n == drv_num_planes_from_format(last.format)
        IN /\ bo.offsets[1] = 0
           /\ \A p \in 1..n : bo.offsets[p] = SumSizes(bo.sizes, p - 1)
           /\ bo.total_size = SumSizes(bo.sizes, n)

C1_Witness ==
    /\ IsLayoutCall
    /\ last.op = "drv_bo_from_format_and_padding"
    /\ last.format = DRM_FORMAT_YVU420
    /\ last.padding[2] > 0
    /\ bos[last.bo].offsets[3] > bos[last.bo].offsets[2]
    /\ bos[last.bo].offsets[2] > 0

(***************************************************************************)
(* The DRM handle ledger (drm_helpers.c): drv->buffer_table is a libdrm    *)
(* hash table from a handle to a count stored in the value pointer.        *)
(***************************************************************************)
MaxOps == 5

\* drmHashLookup: returns 0 and the value when the key is found
drmHashLookup(table, key) ==
    IF table[key].present THEN [ret |-> 0, value |-> table[key].value]
    ELSE [ret |-> 1, value |-> 0]

\* drmHashDelete: a no-op when the key is absent
drmHashDelete(table, key) == [table EXCEPT ![key] = NoEntry]

\* drmHashInsert: called here only after a delete of the same key
drmHashInsert(table, key, value) ==
    [table EXCEPT ![key] = [present |-> TRUE, value |-> value]]

drv_get_reference_count(table, bo, plane) ==
    IF drmHashLookup(table, bo.handles[plane + 1]).ret = 0
    THEN drmHashLookup(table, bo.handles[plane + 1]).value
    ELSE 0

drv_increment_reference_count(table, bo, plane) ==
    LET num == drv_get_reference_count(table, bo, plane)
    IN drmHashInsert(drmHashDelete(table, bo.handles[plane + 1]),
                     bo.handles[plane + 1], num + 1)

\* the decrement without its num > 0 test
DecrementUnguarded(table, bo, plane) ==
    LET num == drv_get_reference_count(table, bo, plane)
    IN drmHashInsert(drmHashDelete(table, bo.handles[plane + 1]),
                     bo.handles[plane + 1], num - 1)

drv_decrement_reference_count(table, bo, plane) ==
    LET num == drv_get_reference_count(table, bo, plane)
    IN IF num > 0
       THEN drmHashInsert(drmHashDelete(table, bo.handles[plane + 1]),
                          bo.handles[plane + 1], num - 1)
       ELSE drmHashDelete(table, bo.handles[plane + 1])

\* a buffer object of the given format whose planes carry the given handles
BoWithHandles(format, handles) ==
    [NewBo(format, 1, 1) EXCEPT
        !.handles = [p \in Planes |-> IF p <= Len(handles) THEN handles[p] ELSE 0],
        !.live = TRUE]

\* the calls made so far on each handle, oldest first
CallsOn(h) == IF last.op = "none" THEN <<>> ELSE last.calls[h]

InitRefs ==
    /\ EmptyDriver
    /\ ndebug = FALSE
    /\ \E h1 \in {1, 2}, h2 \in {1, 2} :
         bos = [b \in BoIds |->
                  IF b = "bo1"
                  THEN BoWithHandles(DRM_FORMAT_NV12, <<h1, h2>>)
                  ELSE BoWithHandles(DRM_FORMAT_XRGB8888, <<h2>>)]

DrvIncrementReferenceCount ==
    \E b \in BoIds, plane \in 0..2 :
        LET h == bos[b].handles[plane + 1]
        IN /\ plane < bos[b].num_planes
           /\ Len(CallsOn(h)) < MaxOps
           /\ buffer_table' = drv_increment_reference_count(buffer_table, bos[b], plane)
           /\ last' = [op |-> "drv_increment_reference_count", bo |-> b, plane |-> plane,
                       calls |-> [k \in Handles |->
                                    IF k = h THEN Append(CallsOn(k), "inc") ELSE CallsOn(k)]]
           /\ UNCHANGED <<bos, kernel, mappings, vmas, combos, priv, ndebug, aborted>>

DrvDecrementReferenceCount ==
    \E b \in BoIds, plane \in 0..2 :
        LET h == bos[b].handles[plane + 1]
        IN /\ plane < bos[b].num_planes
           /\ Len(CallsOn(h)) < MaxOps
           /\ buffer_table' = drv_decrement_reference_count(buffer_table, bos[b], plane)
           /\ last' = [op |-> "drv_decrement_reference_count", bo |-> b, plane |-> plane,
                       calls |-> [k \in Handles |->
                                    IF k = h THEN Append(CallsOn(k), "dec") ELSE CallsOn(k)]]
           /\ UNCHANGED <<bos, kernel, mappings, vmas, combos, priv, ndebug, aborted>>

NextRefs == DrvIncrementReferenceCount \/ DrvDecrementReferenceCount

SpecRefs == InitRefs /\ [][NextRefs]_vars

\* the counter that adds 1 on "inc" and subtracts 1 on "dec" but stays at 0
RECURSIVE SaturatingCount(_)
SaturatingCount(calls) ==
    IF calls = <<>> THEN 0
    ELSE LET before == SaturatingCount(SubSeq(calls, 1, Len(calls) - 1))
         IN IF calls[Len(calls)] = "inc" THEN before + 1
            ELSE IF before = 0 THEN 0 ELSE before - 1

\* C2: from an untracked handle, after any sequence of increments and
\* decrements on planes carrying it, drv_get_reference_count returns the
\* saturating counter of the calls: 0 when untracked, 1 after three
\* increments and two decrements, never a negative or wrapped value.
C2_SaturatingRefcount ==
    \A b \in BoIds : \A plane \in 0..(bos[b].num_planes - 1) :
        LET h == bos[b].handles[plane + 1]
            got == drv_get_reference_count(buffer_table, bos[b], plane)
        IN /\ got = SaturatingCount(CallsOn(h))
           /\ got >= 0
           /\ CallsOn(h) = <<>> => got = 0
           /\ CallsOn(h) = <<"inc", "inc", "inc", "dec", "dec">> => got = 1

C2_Witness ==
    /\ last.op = "drv_decrement_reference_count"
    /\ \E h \in {1, 2} :
         /\ CallsOn(h) = <<"inc", "inc", "inc", "dec", "dec">>
         /\ buffer_table[h] = [present |-> TRUE, value |-> 1]
    /\ \E h \in {1, 2} :
         /\ CallsOn(h) = <<"inc", "dec", "dec">>
         /\ buffer_table[h] = NoEntry

(***************************************************************************)
(* The kernel's side of the GEM ioctls the helpers issue.  kernel[d] is    *)
(* the handle this DRM file holds for dma-buf d, 0 when it holds none:     *)
(* importing a dma-buf twice yields the same handle and no new reference,  *)
(* and a closed handle's id is free to be handed out again.                *)
(***************************************************************************)
BAD_FD == 0
Errno == [EBADF |-> 9, EINVAL |-> 22]

OpenHandles(k) == {k[d] : d \in DmaBufs} \ {0}

LowestFreeHandle(k) ==
    CHOOSE h \in 1..MaxDmaBufs :
        /\ h \notin OpenHandles(k)
        /\ \A g \in 1..(h - 1) : g \in OpenHandles(k)

\* drmIoctl(fd, DRM_IOCTL_PRIME_FD_TO_HANDLE, &prime_handle)
PrimeFdToHandle(k, fd) ==
    IF fd \notin DmaBufs
    THEN [ret |-> -1, errno |-> Errno.EBADF, handle |-> 0, kernel |-> k]
    ELSE IF k[fd] # 0
    THEN [ret |-> 0, errno |-> 0, handle |-> k[fd], kernel |-> k]
    ELSE [ret |-> 0, errno |-> 0, handle |-> LowestFreeHandle(k),
          kernel |-> [k EXCEPT ![fd] = LowestFreeHandle(k)]]

\* drmIoctl(fd, DRM_IOCTL_GEM_CLOSE, &gem_close)
GemClose(k, handle) ==
    IF handle \in OpenHandles(k)
    THEN [ret |-> 0, errno |-> 0,
          kernel |-> [d \in DmaBufs |-> IF k[d] = handle THEN 0 ELSE k[d]]]
    ELSE [ret |-> -1, errno |-> Errno.EINVAL, kernel |-> k]

\* the skip test that looks at the plane just before only
ClosedByPreviousPlane(bo, plane) ==
    plane > 0 /\ bo.handles[plane] = bo.handles[plane + 1]

\* drv_gem_bo_destroy's inner loop: some earlier plane carries this handle
ClosedByEarlierPlane(bo, plane) ==
    \E i \in 0..(plane - 1) : bo.handles[i + 1] = bo.handles[plane + 1]

\* drv_gem_bo_destroy's outer loop from plane on; closes lists the handles a
\* close was issued for, errno is the calling thread's errno
RECURSIVE GemDestroyLoop(_, _, _, _, _, _)
GemDestroyLoop(bo, plane, k, error, closes, errno) ==
    IF plane >= bo.num_planes
    THEN [kernel |-> k, ret |-> error, closes |-> closes, errno |-> errno]
    ELSE IF ClosedByEarlierPlane(bo, plane)
    THEN GemDestroyLoop(bo, plane + 1, k, error, closes, errno)
    ELSE LET c == GemClose(k, bo.handles[plane + 1])
         IN IF c.ret # 0
            THEN GemDestroyLoop(bo, plane + 1, c.kernel, -c.errno,
                                Append(closes, bo.handles[plane + 1]), c.errno)
            ELSE GemDestroyLoop(bo, plane + 1, c.kernel, error,
                                Append(closes, bo.handles[plane + 1]), errno)

drv_gem_bo_destroy(bo, k, errno) == GemDestroyLoop(bo, 0, k, 0, <<>>, errno)

\* the failure branch without the call of drv_gem_bo_destroy
ImportFailureNoCleanup(bo, plane, k, errno) ==
    [bo |-> [bo EXCEPT !.num_planes = plane], kernel |-> k, ret |-> -errno,
     closes |-> <<>>, gem |-> FALSE]

\* drv_prime_bo_import's branch for a failed DRM_IOCTL_PRIME_FD_TO_HANDLE
ImportFailure(bo, plane, k, errno) ==
    LET cut == [bo EXCEPT !.num_planes = plane]
        d == drv_gem_bo_destroy(cut, k, errno)
    IN [bo |-> cut, kernel |-> d.kernel, ret |-> -d.errno, closes |-> d.closes,
        gem |-> TRUE]

\* drv_prime_bo_import's loop from plane on
RECURSIVE ImportLoop(_, _, _, _, _)
ImportLoop(bo, plane, fds, tiling, k) ==
    IF plane >= bo.num_planes
    THEN [bo |-> [bo EXCEPT !.tiling = tiling], kernel |-> k, ret |-> 0,
          closes |-> <<>>, gem |-> FALSE]
    ELSE LET r == PrimeFdToHandle(k, fds[plane + 1])
         IN IF r.ret # 0
            THEN ImportFailure(bo, plane, r.kernel, r.errno)
            ELSE ImportLoop([bo EXCEPT !.handles[plane + 1] = r.handle],
                            plane + 1, fds, tiling, r.kernel)

drv_prime_bo_import(bo, fds, tiling, k) == ImportLoop(bo, 0, fds, tiling, k)

(***************************************************************************)
(* The callers of the backend's import and destroy (drv_bo_import and      *)
(* drv_bo_destroy): a successful import increments the ledger count of     *)
(* each plane's handle; a destroy decrements them and calls the backend's  *)
(* destroy only when the counts of all its planes have dropped to zero.    *)
(***************************************************************************)
RECURSIVE IncrementPlanes(_, _, _)
IncrementPlanes(table, bo, plane) ==
    IF plane >= bo.num_planes THEN table
    ELSE IncrementPlanes(drv_increment_reference_count(table, bo, plane), bo, plane + 1)

RECURSIVE DecrementPlanes(_, _, _)
DecrementPlanes(table, bo, plane) ==
    IF plane >= bo.num_planes THEN table
    ELSE DecrementPlanes(drv_decrement_reference_count(table, bo, plane), bo, plane + 1)

RECURSIVE TotalReferences(_, _, _)
TotalReferences(table, bo, plane) ==
    IF plane >= bo.num_planes THEN 0
    ELSE drv_get_reference_count(table, bo, plane) + TotalReferences(table, bo, plane + 1)

\* the ledger count of a handle
RefCountOf(table, h) == IF table[h].present THEN table[h].value ELSE 0

\* the descriptors of an import of n planes; the entries past n are unset
FdLists(n) ==
    {[p \in Planes |-> IF p <= n THEN f[p] ELSE BAD_FD] :
        f \in [1..n -> DmaBufs \cup {BAD_FD}]}

InitGem ==
    /\ EmptyDriver
    /\ ndebug = FALSE
    /\ bos = [b \in BoIds |-> NewBo(DRM_FORMAT_XRGB8888, 1, 1)]

DrvBoImport ==
    \E b \in {c \in BoIds : ~bos[c].live},
       format \in BoFormats :
      \E fds \in FdLists(drv_num_planes_from_format(format)) :
        LET fresh == NewBo(format, 1, 1)
            r == drv_prime_bo_import(fresh, fds, 0, kernel)
        IN /\ b \notin LayoutBos => format = DRM_FORMAT_XRGB8888
           /\ kernel' = r.kernel
           /\ IF r.ret # 0
              THEN /\ bos' = [bos EXCEPT ![b] = NewBo(DRM_FORMAT_XRGB8888, 1, 1)]
                   /\ UNCHANGED buffer_table
              ELSE /\ bos' = [bos EXCEPT ![b] = [r.bo EXCEPT !.live = TRUE]]
                   /\ buffer_table' = IncrementPlanes(buffer_table, r.bo, 0)
           /\ last' = [op |-> "drv_bo_import", bo |-> b, fds |-> fds,
                       planes |-> fresh.num_planes, ret |-> r.ret, result |-> r.bo,
                       closes |-> r.closes, gem |-> r.gem]
           /\ UNCHANGED <<mappings, vmas, combos, priv, ndebug, aborted>>

DrvBoDestroy ==
    \E b \in BoIds :
        LET table == DecrementPlanes(buffer_table, bos[b], 0)
            total == TotalReferences(table, bos[b], 0)
            d == drv_gem_bo_destroy(bos[b], kernel, 0)
        IN /\ bos[b].live
           /\ buffer_table' = table
           /\ kernel' = IF total = 0 THEN d.kernel ELSE kernel
           /\ bos' = [bos EXCEPT ![b] = NewBo(DRM_FORMAT_XRGB8888, 1, 1)]
           /\ last' = [op |-> "drv_bo_destroy", bo |-> b, result |-> bos[b],
                       ret |-> IF total = 0 THEN d.ret ELSE 0,
                       closes |-> IF total = 0 THEN d.closes ELSE <<>>,
                       gem |-> (total = 0)]
           /\ UNCHANGED <<mappings, vmas, combos, priv, ndebug, aborted>>

NextGem == DrvBoImport \/ DrvBoDestroy

SpecGem == InitGem /\ [][NextGem]_vars

(***************************************************************************)
(* Claims about handle release.                                            *)
(***************************************************************************)
\* the call made drv_gem_bo_destroy run, on the buffer object last.result
RanGemDestroy == last.op \in {"drv_bo_import", "drv_bo_destroy"} /\ last.gem

PlaneHandles(bo) == {bo.handles[p] : p \in 1..bo.num_planes}

TimesClosed(closes, h) == Cardinality({i \in 1..Len(closes) : closes[i] = h})

\* C5: drv_gem_bo_destroy issues exactly one close per distinct handle among
\* the planes 0..num_planes-1 of the buffer, whatever handles the planes
\* carry: none is closed twice, none is left out, nothing else is closed.
C5_OneClosePerDistinctHandle ==
    RanGemDestroy =>
        /\ \A h \in PlaneHandles(last.result) : TimesClosed(last.closes, h) = 1
        /\ \A i \in 1..Len(last.closes) : last.closes[i] \in PlaneHandles(last.result)

C5_Witness ==
    /\ last.op = "drv_bo_destroy" /\ last.gem
    /\ last.result.num_planes = 3
    /\ last.result.handles[1] = last.result.handles[3]
    /\ last.result.handles[1] # last.result.handles[2]
    /\ Len(last.closes) = 2

\* C6: across any sequence of imports and destroys no close is issued for a
\* handle whose ledger count is above zero, the cleanup inside a failing
\* drv_prime_bo_import included.
C6_NoCloseWhileReferenced ==
    RanGemDestroy =>
        \A i \in 1..Len(last.closes) : RefCountOf(buffer_table, last.closes[i]) = 0

\* the first plane of an import whose descriptor fails to convert
FirstBadPlane(fds, planes) ==
    IF \E p \in 0..(planes - 1) : fds[p + 1] = BAD_FD
    THEN CHOOSE p \in 0..(planes - 1) :
            /\ fds[p + 1] = BAD_FD
            /\ \A q \in 0..(p - 1) : fds[q + 1] # BAD_FD
    ELSE planes

\* C7: when drv_prime_bo_import fails on plane k, the handles obtained for
\* planes 0..k-1 are each closed exactly once, nothing is closed for a plane
\* from k on, and the result is negative; when no plane fails the result is
\* 0, each plane holds the handle of its descriptor and nothing is closed.
C7_ImportReleasesOnFailure ==
    last.op = "drv_bo_import" =>
        LET k == FirstBadPlane(last.fds, last.planes)
            got == {last.result.handles[p] : p \in 1..k}
        IN IF k < last.planes
           THEN /\ last.ret < 0
                /\ \A h \in got : h # 0 /\ TimesClosed(last.closes, h) = 1
                /\ Len(last.closes) = Cardinality(got)
           ELSE /\ last.ret = 0
                /\ last.closes = <<>>
                /\ \A p \in 1..last.planes :
                      /\ last.result.handles[p] # 0
                      /\ last.result.handles[p] = kernel[last.fds[p]]

C7_Witness ==
    /\ last.op = "drv_bo_import"
    /\ last.planes = 3
    /\ FirstBadPlane(last.fds, last.planes) = 2
    /\ last.fds[1] # last.fds[2]
    /\ Len(last.closes) = 2
    /\ last.ret < 0

(***************************************************************************)
(* The combination registry (helpers.c) and its use by the vc4 backend.    *)
(***************************************************************************)
MaxCombos == 2

DRM_FORMAT_MOD_LINEAR == "MOD_LINEAR"
DRM_FORMAT_MOD_INVALID == "MOD_INVALID"
DRM_FORMAT_MOD_BROADCOM_VC4_T_TILED == "MOD_BROADCOM_VC4_T_TILED"

BO_USE_NONE == {}
BO_USE_SCANOUT == {"SCANOUT"}
BO_USE_CURSOR == {"CURSOR"}
BO_USE_RENDERING == {"RENDERING"}

\* struct format_metadata; LINEAR_METADATA is { 1, 0, DRM_FORMAT_MOD_LINEAR }
LINEAR_METADATA == [priority |-> 1, tiling |-> 0, modifier |-> DRM_FORMAT_MOD_LINEAR]

drv_add_combination(cs, format, metadata, use_flags) ==
    Append(cs, [format |-> format, metadata |-> metadata, use_flags |-> use_flags])

\* drv_add_combinations' loop from index i (0-based) of formats on
RECURSIVE AddCombinationsLoop(_, _, _, _, _)
AddCombinationsLoop(cs, formats, i, metadata, use_flags) ==
    IF i >= Len(formats) THEN cs
    ELSE AddCombinationsLoop(
             Append(cs, [format |-> formats[i + 1], metadata |-> metadata,
                         use_flags |-> use_flags]),
             formats, i + 1, metadata, use_flags)

\* the loop walking the formats array from its end
AddCombinationsReversed(cs, formats, metadata, use_flags) ==
    AddCombinationsLoop(cs, [i \in 1..Len(formats) |-> formats[Len(formats) + 1 - i]],
                        0, metadata, use_flags)

drv_add_combinations(cs, formats, metadata, use_flags) ==
    AddCombinationsLoop(cs, formats, 0, metadata, use_flags)

\* the widening that stops at the first record it matches
ModifyFirstMatchOnly(cs, format, metadata, use_flags) ==
    LET Match(i) == /\ cs[i].format = format
                    /\ cs[i].metadata.tiling = metadata.tiling
                    /\ cs[i].metadata.modifier = metadata.modifier
    IN [i \in 1..Len(cs) |->
          IF Match(i) /\ \A j \in 1..(i - 1) : ~Match(j)
          THEN [cs[i] EXCEPT !.use_flags = @ \cup use_flags]
          ELSE cs[i]]

drv_modify_combination(cs, format, metadata, use_flags) ==
    [i \in 1..Len(cs) |->
       IF /\ cs[i].format = format
          /\ cs[i].metadata.tiling = metadata.tiling
          /\ cs[i].metadata.modifier = metadata.modifier
       THEN [cs[i] EXCEPT !.use_flags = @ \cup use_flags]
       ELSE cs[i]]

\* best_match, scanning from index i (0-based) in insertion order: the index
\* (1-based) of the first record of the format whose usage mask holds every
\* requested bit, 0 (the NULL pointer) when there is none
RECURSIVE GetCombinationLoop(_, _, _, _)
GetCombinationLoop(cs, i, format, use_flags) ==
    IF i >= Len(cs) THEN 0
    ELSE IF /\ cs[i + 1].format = format
            /\ (cs[i + 1].use_flags \cap use_flags) = use_flags
    THEN i + 1
    ELSE GetCombinationLoop(cs, i + 1, format, use_flags)

drv_get_combination(cs, format, use_flags) == GetCombinationLoop(cs, 0, format, use_flags)

drv_stride_from_format(format, width, plane) ==
    LET layout == layout_from_format(format)
        plane_width == DIV_ROUND_UP(width, layout.horizontal_subsampling[plane + 1])
        stride == plane_width * layout.bytes_per_pixel[plane + 1]
    IN IF format = DRM_FORMAT_YVU420_ANDROID
       THEN IF plane = 0 THEN ALIGN(stride, 32) ELSE ALIGN(stride, 16)
       ELSE stride

\* drmIoctl(fd, DRM_IOCTL_VC4_CREATE_BO, &bo_create): a new buffer under the
\* lowest free handle; fails when the kernel cannot allocate
Vc4CreateBoIoctl(k, fail) ==
    IF fail \/ \A d \in DmaBufs : k[d] # 0
    THEN [ret |-> -1, errno |-> 12, handle |-> 0, kernel |-> k]
    ELSE LET d == CHOOSE d \in DmaBufs : k[d] = 0 /\ \A e \in 1..(d - 1) : k[e] # 0
         IN [ret |-> 0, errno |-> 0, handle |-> LowestFreeHandle(k),
             kernel |-> [k EXCEPT ![d] = LowestFreeHandle(k)]]

\* the result of a backend call that touched nothing
Untouched(bo, k, ret) == [bo |-> bo, kernel |-> k, ret |-> ret, assert_failed |-> FALSE]

\* one kernel buffer backs the whole buffer object
vc4_bo_create_for_modifier(bo, width, height, format, modifier, k, fail, nd) ==
    IF modifier # DRM_FORMAT_MOD_LINEAR
    THEN Untouched(bo, k, -Errno.EINVAL)
    ELSE LET stride == ALIGN(drv_stride_from_format(format, width, 0), 64)
         IN IF ~nd /\ LayoutAssertFails(bo, stride, height, format)
            THEN [Untouched(bo, k, 0) EXCEPT !.assert_failed = TRUE]
            ELSE LET laid == drv_bo_from_format(bo, stride, height, format).bo
                     c == Vc4CreateBoIoctl(k, fail)
                 IN IF c.ret # 0
                    THEN Untouched(laid, k, -c.errno)
                    ELSE [bo |-> [laid EXCEPT
                                    !.handles = [p \in Planes |->
                                       IF p <= laid.num_planes THEN c.handle ELSE @[p]]],
                          kernel |-> c.kernel, ret |-> 0, assert_failed |-> FALSE]

\* vc4_bo_create without its test of the combination found
Vc4BoCreateUnchecked(bo, width, height, format, use_flags, cs, k, fail, nd) ==
    LET combo == drv_get_combination(cs, format, use_flags)
    IN vc4_bo_create_for_modifier(bo, width, height, format,
           IF combo = 0 THEN DRM_FORMAT_MOD_LINEAR ELSE cs[combo].metadata.modifier,
           k, fail, nd)

vc4_bo_create(bo, width, height, format, use_flags, cs, k, fail, nd) ==
    LET combo == drv_get_combination(cs, format, use_flags)
    IN IF combo = 0
       THEN Untouched(bo, k, -Errno.EINVAL)
       ELSE vc4_bo_create_for_modifier(bo, width, height, format,
                                       cs[combo].metadata.modifier, k, fail, nd)

(***************************************************************************)
(* Inputs of the registry.                                                 *)
(***************************************************************************)
RegFormats == {DRM_FORMAT_ARGB8888, DRM_FORMAT_NV12}
RegMetadata ==
    {LINEAR_METADATA,
     [priority |-> 2, tiling |-> 1, modifier |-> DRM_FORMAT_MOD_BROADCOM_VC4_T_TILED]}
UseMasks == SUBSET (BO_USE_SCANOUT \cup BO_USE_RENDERING)
FormatLists == {<<f>> : f \in RegFormats} \cup {<<f, g>> : f \in RegFormats, g \in RegFormats}

InitReg ==
    /\ EmptyDriver
    /\ ndebug = FALSE
    /\ bos = [b \in BoIds |-> NewBo(DRM_FORMAT_XRGB8888, 1, 1)]

\* the registry is filled by the backend's init, before any query is made
\* and before any buffer exists
InitPhase ==
    last.op \in {"none", "drv_add_combination", "drv_add_combinations",
                 "drv_modify_combination"}

NoBufferYet == \A b \in BoIds : ~bos[b].live

DrvAddCombination ==
    \E format \in RegFormats, metadata \in RegMetadata, use_flags \in UseMasks :
        /\ InitPhase
        /\ Len(combos) < MaxCombos
        /\ combos' = drv_add_combination(combos, format, metadata, use_flags)
        /\ last' = [op |-> "drv_add_combination", formats |-> <<format>>,
                    metadata |-> metadata, use_flags |-> use_flags]
        /\ UNCHANGED <<bos, buffer_table, kernel, mappings, vmas, priv, ndebug, aborted>>

DrvAddCombinations ==
    \E formats \in FormatLists, metadata \in RegMetadata, use_flags \in UseMasks :
        /\ InitPhase
        /\ Len(combos) + Len(formats) <= MaxCombos
        /\ combos' = drv_add_combinations(combos, formats, metadata, use_flags)
        /\ last' = [op |-> "drv_add_combinations", formats |-> formats,
                    metadata |-> metadata, use_flags |-> use_flags]
        /\ UNCHANGED <<bos, buffer_table, kernel, mappings, vmas, priv, ndebug, aborted>>

DrvModifyCombination ==
    \E format \in RegFormats, metadata \in RegMetadata, use_flags \in UseMasks :
        /\ InitPhase
        /\ combos' = drv_modify_combination(combos, format, metadata, use_flags)
        /\ last' = [op |-> "drv_modify_combination",
                    widened |-> Cardinality({i \in 1..Len(combos) : combos'[i] # combos[i]})]
        /\ UNCHANGED <<bos, buffer_table, kernel, mappings, vmas, priv, ndebug, aborted>>

DrvGetCombination ==
    \E format \in RegFormats, use_flags \in UseMasks :
        /\ NoBufferYet
        /\ last' = [op |-> "drv_get_combination",
                    combo |-> drv_get_combination(combos, format, use_flags)]
        /\ UNCHANGED <<bos, buffer_table, kernel, mappings, vmas, combos, priv, ndebug, aborted>>

\* drv_bo_create on the vc4 backend: drv_bo_new, the backend's bo_create, and
\* on success the ledger increment of every plane
Vc4BoCreate ==
    \E format \in RegFormats, use_flags \in UseMasks, size \in {MaxHeight},
       fail \in BOOLEAN :
        LET b == "bo1"
            r == vc4_bo_create(NewBo(format, size, size), size, size, format, use_flags,
                               combos, kernel, fail, ndebug)
        IN /\ ~bos[b].live
           /\ kernel' = r.kernel
           /\ IF r.ret # 0
              THEN UNCHANGED <<bos, buffer_table>>
              ELSE /\ bos' = [bos EXCEPT ![b] = [r.bo EXCEPT !.live = TRUE]]
                   /\ buffer_table' = IncrementPlanes(buffer_table, r.bo, 0)
           /\ last' = [op |-> "vc4_bo_create", formats |-> <<format>>,
                       use_flags |-> use_flags, ret |-> r.ret, fail |-> fail]
           /\ UNCHANGED <<mappings, vmas, combos, priv, ndebug, aborted>>

NextReg ==
    \/ DrvAddCombination
    \/ DrvAddCombinations
    \/ DrvModifyCombination
    \/ DrvGetCombination
    \/ Vc4BoCreate

SpecReg == InitReg /\ [][NextReg]_vars

(***************************************************************************)
(* The mapping cache: drv->mappings is an ordered array of mapping         *)
(* records, each pointing at a vma that carries the handle, the access     *)
(* flags and the refcount.  vmas is the heap of vma records by address; a  *)
(* freed record keeps its address and is marked not alive.                 *)
(***************************************************************************)
MaxMappings == 3
BO_MAP_READ == {"BO_MAP_READ"}
BO_MAP_READ_WRITE == {"BO_MAP_READ", "BO_MAP_WRITE"}
MapFlags == {BO_MAP_READ, BO_MAP_READ_WRITE}

\* index (from 1) of the first cache entry at or after i whose vma has this
\* handle and these flags; 0 when there is none
PriorMappingLoop(ms, vs, i, handle, map_flags) ==
    LET Scan[k \in 1..(Len(ms) + 1)] ==
          IF k > Len(ms) THEN 0
          ELSE IF /\ vs[ms[k].vma].handle = handle
                  /\ vs[ms[k].vma].map_flags = map_flags
               THEN k
               ELSE Scan[k + 1]
    IN Scan[i]

\* a map request on one plane: reuse the vma that maps this handle with
\* these flags and count one more reference on it, else have the backend
\* map the handle into a new vma of refcount 1; the mapping is appended
drv_bo_map(bo, plane, map_flags, ms, vs) ==
    LET handle == bo.handles[plane + 1]
        prior == PriorMappingLoop(ms, vs, 1, handle, map_flags)
    IN IF prior # 0
       THEN [mappings |-> Append(ms, [vma |-> ms[prior].vma]),
             vmas |-> [vs EXCEPT ![ms[prior].vma].refcount = @ + 1]]
       ELSE [mappings |-> Append(ms, [vma |-> Len(vs) + 1]),
             vmas |-> Append(vs, [handle |-> handle, map_flags |-> map_flags,
                                  refcount |-> 1, alive |-> TRUE])]

\* a removal that fills the hole with the last entry
ArrayRemoveSwapLast(ms, idx) ==
    [i \in 1..(Len(ms) - 1) |-> IF i = idx + 1 THEN ms[Len(ms)] ELSE ms[i]]

\* drv_array_remove: the entries after idx move down by one
drv_array_remove(ms, idx) ==
    [i \in 1..(Len(ms) - 1) |-> IF i <= idx THEN ms[i] ELSE ms[i + 1]]

\* the unmap routine runs on every decrement
UnmapOnEveryDecrement(refcount) == TRUE

\* !--mapping->vma->refcount
RefcountReachedZero(refcount) == refcount = 0

\* The two loops of drv_mapping_destroy.  idx is set to 0 once, before the
\* loop over the planes, and is carried from one plane to the next.  fail
\* is the number of the bo_unmap call that fails (0: none does).  events
\* lists the decrements made: the vma, the refcount it reached, whether
\* bo_unmap was called.
RECURSIVE MappingDestroyLoop(_, _, _, _, _, _, _)
MappingDestroyLoop(bo, plane, idx, ms, vs, events, fail) ==
    IF plane >= bo.num_planes
    THEN [ret |-> 0, mappings |-> ms, vmas |-> vs, events |-> events]
    ELSE IF idx >= Len(ms)
    THEN MappingDestroyLoop(bo, plane + 1, idx, ms, vs, events, fail)
    ELSE LET v == ms[idx + 1].vma
             refcount == vs[v].refcount - 1
             unmap == RefcountReachedZero(refcount)
             log == Append(events, [vma |-> v, refcount |-> refcount, unmap |-> unmap])
             unmaps == Cardinality({i \in 1..Len(log) : log[i].unmap})
             decremented == [vs EXCEPT ![v].refcount = refcount]
         IN IF vs[v].handle # bo.handles[plane + 1]
            THEN MappingDestroyLoop(bo, plane, idx + 1, ms, vs, events, fail)
            ELSE IF unmap /\ unmaps = fail
            THEN [ret |-> -1, mappings |-> ms, vmas |-> decremented, events |-> log]
            ELSE MappingDestroyLoop(bo, plane, idx, drv_array_remove(ms, idx),
                                    IF unmap THEN [decremented EXCEPT ![v].alive = FALSE]
                                             ELSE decremented,
                                    log, fail)

drv_mapping_destroy(bo, ms, vs, fail) ==
    MappingDestroyLoop(bo, 0, 0, ms, vs, <<>>, fail)

MapHandleLists ==
    {<<h0>> : h0 \in {1, 2}}
      \cup {<<h0, h1>> : h0 \in {1, 2}, h1 \in {1, 2}}
      \cup {<<h0, h1, h2>> : h0 \in {1, 2}, h1 \in {1, 2}, h2 \in {1, 2}}

FormatOfPlanes(n) ==
    CASE n = 1 -> DRM_FORMAT_XRGB8888
      [] n = 2 -> DRM_FORMAT_NV12
      [] n = 3 -> DRM_FORMAT_YVU420

InitMap ==
    /\ EmptyDriver
    /\ ndebug = FALSE
    /\ \E handles \in MapHandleLists :
         bos = [b \in BoIds |->
                  IF b = "bo1"
                  THEN BoWithHandles(FormatOfPlanes(Len(handles)), handles)
                  ELSE BoWithHandles(DRM_FORMAT_XRGB8888, <<3>>)]

DrvBoMap ==
    \E b \in BoIds, plane \in 0..2, map_flags \in MapFlags :
        LET r == drv_bo_map(bos[b], plane, map_flags, mappings, vmas)
        IN /\ bos[b].live
           /\ plane < bos[b].num_planes
           /\ Len(mappings) < MaxMappings
           /\ mappings' = r.mappings
           /\ vmas' = r.vmas
           /\ last' = [op |-> "drv_bo_map"]
           /\ UNCHANGED <<bos, buffer_table, kernel, combos, priv, ndebug, aborted>>

\* the buffer's destruction runs drv_mapping_destroy and frees the bo
DrvMappingDestroy ==
    \E b \in BoIds, fail \in 0..2 :
        LET r == drv_mapping_destroy(bos[b], mappings, vmas, fail)
        IN /\ bos[b].live
           /\ fail = 0 \/ r.ret # 0
           /\ mappings' = r.mappings
           /\ vmas' = r.vmas
           /\ bos' = [bos EXCEPT ![b].live = FALSE]
           /\ last' = [op |-> "drv_mapping_destroy", bo |-> b, ret |-> r.ret,
                       events |-> r.events]
           /\ UNCHANGED <<buffer_table, kernel, combos, priv, ndebug, aborted>>

NextMap == DrvBoMap \/ DrvMappingDestroy

SpecMap == InitMap /\ [][NextMap]_vars

\* the handles of the planes of a buffer
HandlesOf(bo) == {bo.handles[p + 1] : p \in 0..(bo.num_planes - 1)}

\* C3: after drv_mapping_destroy(bo) returns 0 the cache holds no entry
\* whose vma handle is the handle of a plane of bo, whichever plane it is.
C3_NoEntryLeftForAnyPlane ==
    (last.op = "drv_mapping_destroy" /\ last.ret = 0) =>
        \A i \in 1..Len(mappings) :
            vmas[mappings[i].vma].handle \notin HandlesOf(bos[last.bo])

DecrementsOf(events, v) == {i \in 1..Len(events) : events[i].vma = v}
UnmapsOf(events, v) == {i \in 1..Len(events) : events[i].vma = v /\ events[i].unmap}

\* C4: in drv_mapping_destroy bo_unmap is called for a vma exactly when a
\* decrement brings its refcount to zero and at most once per vma: a vma of
\* refcount N is unmapped once, at its N-th decrement, a vma left above zero
\* is not unmapped, and a buffer whose two planes alias one handle with one
\* mapping gets exactly one unmap.
C4_UnmapExactlyAtZero ==
    [][last'.op = "drv_mapping_destroy" =>
         LET events == last'.events
         IN /\ \A i \in 1..Len(events) : events[i].unmap <=> events[i].refcount = 0
            /\ \A v \in 1..Len(vmas) :
                  LET n == Cardinality(DecrementsOf(events, v))
                  IN /\ Cardinality(UnmapsOf(events, v)) <= 1
                     /\ n <= vmas[v].refcount
                     /\ n = vmas[v].refcount /\ n > 0 =>
                           /\ Cardinality(UnmapsOf(events, v)) = 1
                           /\ \A i \in UnmapsOf(events, v) :
                                 \A j \in DecrementsOf(events, v) : j <= i
                     /\ n < vmas[v].refcount => UnmapsOf(events, v) = {}
            /\ (/\ bos[last'.bo].num_planes = 2
                /\ bos[last'.bo].handles[1] = bos[last'.bo].handles[2]
                /\ Len(mappings) = 1
                /\ vmas[mappings[1].vma].handle = bos[last'.bo].handles[1])
                 => Cardinality({i \in 1..Len(events) : events[i].unmap}) = 1]_vars

C4_Witness ==
    /\ last.op = "drv_mapping_destroy"
    /\ last.ret = 0
    /\ bos[last.bo].num_planes = 2
    /\ bos[last.bo].handles[1] = bos[last.bo].handles[2]
    /\ Len(last.events) = 2
    /\ last.events[1].vma = last.events[2].vma
    /\ ~last.events[1].unmap
    /\ last.events[2].unmap
    /\ mappings = <<>>

(***************************************************************************)
(* Claims about the registry.                                              *)
(***************************************************************************)
SameVariant(c, format, metadata) ==
    /\ c.format = format
    /\ c.metadata.tiling = metadata.tiling
    /\ c.metadata.modifier = metadata.modifier

\* what widening (format, metadata) by use_flags must make of before
IsWidening(before, after, format, metadata, use_flags) ==
    /\ Len(after) = Len(before)
    /\ \A i \in 1..Len(before) :
          IF SameVariant(before[i], format, metadata)
          THEN /\ after[i].use_flags = before[i].use_flags \cup use_flags
               /\ after[i].format = before[i].format
               /\ after[i].metadata = before[i].metadata
          ELSE after[i] = before[i]
    /\ (\A i \in 1..Len(before) : ~SameVariant(before[i], format, metadata))
          => after = before

\* C8: drv_modify_combination is update-only: it keeps the number of
\* records, ORs the usage bits into every record whose format, tiling and
\* modifier equal the arguments, leaves every other record as it was, and
\* leaves the registry as it was when no record matches.
C8_WidenIsUpdateOnly ==
    /\ [](\A format \in RegFormats, metadata \in RegMetadata, use_flags \in UseMasks :
            IsWidening(combos, drv_modify_combination(combos, format, metadata, use_flags),
                       format, metadata, use_flags))
    /\ [][last'.op = "drv_modify_combination" =>
            \E format \in RegFormats, metadata \in RegMetadata, use_flags \in UseMasks :
                IsWidening(combos, combos', format, metadata, use_flags)]_vars

C8_Witness ==
    /\ last.op = "drv_modify_combination"
    /\ last.widened = 2
    /\ Len(combos) = 2
    /\ combos[1].use_flags # combos[2].use_flags

NewRecord(format, metadata, use_flags) ==
    [format |-> format, metadata |-> metadata, use_flags |-> use_flags]

\* C9: over any sequence of add, add_many and widen calls a record stays at
\* its index with its format, tiling, modifier and priority, its usage mask
\* only gains bits, the record count never decreases, and add and add_many
\* place their records after the existing ones, add_many one per format in
\* array order.
C9_RegistryAppendOnly ==
    [][/\ Len(combos') >= Len(combos)
       /\ \A i \in 1..Len(combos) :
             /\ combos'[i].format = combos[i].format
             /\ combos'[i].metadata = combos[i].metadata
             /\ combos[i].use_flags \subseteq combos'[i].use_flags
       /\ last'.op = "drv_add_combination" =>
             combos' = combos \o <<NewRecord(last'.formats[1], last'.metadata,
                                             last'.use_flags)>>
       /\ last'.op = "drv_add_combinations" =>
             combos' = combos \o [j \in 1..Len(last'.formats) |->
                                    NewRecord(last'.formats[j], last'.metadata,
                                              last'.use_flags)]
       /\ last'.op \notin {"drv_add_combination", "drv_add_combinations"} =>
             Len(combos') = Len(combos)]_vars

C9_Witness ==
    /\ last.op = "drv_add_combinations"
    /\ last.formats = <<DRM_FORMAT_NV12, DRM_FORMAT_ARGB8888>>
    /\ Len(combos) = 2
    /\ combos[1].format = DRM_FORMAT_NV12
    /\ combos[2].format = DRM_FORMAT_ARGB8888

Qualifies(c, format, use_flags) == c.format = format /\ use_flags \subseteq c.use_flags

\* C10: best_match returns the earliest-inserted record of the requested
\* format whose usage mask holds every requested bit, and no record when
\* none qualifies, which vc4_bo_create turns into -EINVAL.
C10_BestMatchIsEarliest ==
    /\ \A format \in RegFormats, use_flags \in UseMasks :
          LET i == drv_get_combination(combos, format, use_flags)
          IN /\ i \in 0..Len(combos)
             /\ i = 0 <=> \A j \in 1..Len(combos) : ~Qualifies(combos[j], format, use_flags)
             /\ i # 0 => /\ Qualifies(combos[i], format, use_flags)
                         /\ \A j \in 1..(i - 1) : ~Qualifies(combos[j], format, use_flags)
    /\ last.op = "vc4_bo_create" =>
          ((\A j \in 1..Len(combos) :
               ~Qualifies(combos[j], last.formats[1], last.use_flags))
             => last.ret = -Errno.EINVAL)

C10_Witness ==
    /\ last.op = "vc4_bo_create"
    /\ last.ret = -Errno.EINVAL
    /\ ~last.fail
    /\ Len(combos) = 2
    /\ \A j \in 1..2 : combos[j].format = last.formats[1]
    /\ \A j \in 1..2 : combos[j].metadata = LINEAR_METADATA
    /\ \E bit \in last.use_flags : \A j \in 1..2 : bit \notin combos[j].use_flags

(***************************************************************************)
(* The modifier selector.  A modifier list is a sequence; the C arrays are *)
(* indexed from 0, the sequences from 1.                                   *)
(***************************************************************************)
MaxModifiers == 3
MaxOrder == 2
I915_FORMAT_MOD_X_TILED == "I915_FORMAT_MOD_X_TILED"
I915_FORMAT_MOD_Y_TILED == "I915_FORMAT_MOD_Y_TILED"

\* the two nested loops of drv_pick_modifier: i walks modifier_order, j walks
\* modifiers, the first equal pair ends the search
RECURSIVE PickModifierLoop(_, _, _, _)
PickModifierLoop(modifiers, modifier_order, i, j) ==
    IF i >= Len(modifier_order) THEN DRM_FORMAT_MOD_LINEAR
    ELSE IF j >= Len(modifiers)
    THEN PickModifierLoop(modifiers, modifier_order, i + 1, 0)
    ELSE IF modifiers[j + 1] = modifier_order[i + 1] THEN modifiers[j + 1]
    ELSE PickModifierLoop(modifiers, modifier_order, i, j + 1)

\* the search with the loops exchanged: the first candidate found in the order
PickFirstCandidate(modifiers, modifier_order) ==
    PickModifierLoop(modifier_order, modifiers, 0, 0)

drv_pick_modifier(modifiers, modifier_order) ==
    PickModifierLoop(modifiers, modifier_order, 0, 0)

RECURSIVE HasModifierLoop(_, _, _)
HasModifierLoop(list, i, modifier) ==
    IF i >= Len(list) THEN FALSE
    ELSE IF list[i + 1] = modifier THEN TRUE
    ELSE HasModifierLoop(list, i + 1, modifier)

drv_has_modifier(list, modifier) == HasModifierLoop(list, 0, modifier)

PickModifiers ==
    {DRM_FORMAT_MOD_LINEAR, DRM_FORMAT_MOD_BROADCOM_VC4_T_TILED,
     I915_FORMAT_MOD_X_TILED, I915_FORMAT_MOD_Y_TILED}

SeqsUpTo(S, n) == UNION {[1..k -> S] : k \in 0..n}

InitPick ==
    /\ EmptyDriver
    /\ ndebug = FALSE
    /\ bos = [b \in BoIds |-> NewBo(DRM_FORMAT_XRGB8888, 1, 1)]

DrvPickModifier ==
    \E modifiers \in SeqsUpTo(PickModifiers, MaxModifiers),
       modifier_order \in SeqsUpTo(PickModifiers, MaxOrder) :
        /\ last.op = "none"
        /\ last' = [op |-> "drv_pick_modifier", modifiers |-> modifiers,
                    modifier_order |-> modifier_order,
                    ret |-> drv_pick_modifier(modifiers, modifier_order)]
        /\ UNCHANGED <<bos, buffer_table, kernel, mappings, vmas, combos, priv, ndebug, aborted>>

DrvHasModifier ==
    \E modifier \in PickModifiers :
        /\ last.op = "drv_pick_modifier"
        /\ last' = [op |-> "drv_has_modifier", list |-> last.modifiers,
                    modifier |-> modifier,
                    ret |-> drv_has_modifier(last.modifiers, modifier)]
        /\ UNCHANGED <<bos, buffer_table, kernel, mappings, vmas, combos, priv, ndebug, aborted>>

NextPick == DrvPickModifier \/ DrvHasModifier

SpecPick == InitPick /\ [][NextPick]_vars

Occurs(list, modifier) == \E j \in 1..Len(list) : list[j] = modifier

\* C11: drv_pick_modifier returns the first entry of the priority order, in
\* that order's own sequence, that occurs among the candidates, whatever the
\* order of the candidates, and DRM_FORMAT_MOD_LINEAR when no entry of the
\* order occurs among them, an empty list on either side included.
C11_PickFollowsPriorityOrder ==
    last.op = "drv_pick_modifier" =>
        LET hits == {i \in 1..Len(last.modifier_order) :
                        Occurs(last.modifiers, last.modifier_order[i])}
        IN IF hits = {}
           THEN last.ret = DRM_FORMAT_MOD_LINEAR
           ELSE \E i \in hits : /\ \A k \in hits : i <= k
                                /\ last.ret = last.modifier_order[i]

C11_Witness ==
    /\ last.op = "drv_pick_modifier"
    /\ last.modifiers = <<DRM_FORMAT_MOD_BROADCOM_VC4_T_TILED, I915_FORMAT_MOD_X_TILED,
                          I915_FORMAT_MOD_Y_TILED>>
    /\ last.modifier_order = <<I915_FORMAT_MOD_Y_TILED, DRM_FORMAT_MOD_BROADCOM_VC4_T_TILED>>
    /\ last.ret = I915_FORMAT_MOD_Y_TILED

(***************************************************************************)
(* Claims about plane strides and sizes.                                   *)
(***************************************************************************)
\* the least k with k * d >= n
Ceil(n, d) == CHOOSE k \in 0..n : k * d >= n /\ (k - 1) * d < n

\* C12: for a supported format the layout computation sets strides[p] to the
\* base stride, or to ceil(base stride / 2) for the planes p >= 1 of YVU420
\* and YVU420_ANDROID, and sizes[p] to
\* strides[p] * ceil(aligned_height / vertical_subsampling[p]) + padding[p].
C12_StridesAndSizes ==
    (IsLayoutCall /\ drv_num_planes_from_format(last.format) > 0) =>
        LET bo == bos[last.bo]
            layout == layout_from_format(last.format)
        IN \A p \in 0..(layout.num_planes - 1) :
              /\ bo.strides[p + 1] =
                    IF p >= 1 /\ last.format \in {DRM_FORMAT_YVU420, DRM_FORMAT_YVU420_ANDROID}
                    THEN Ceil(last.stride, 2)
                    ELSE last.stride
              /\ bo.sizes[p + 1] =
                    bo.strides[p + 1]
                      * Ceil(last.aligned_height, layout.vertical_subsampling[p + 1])
                      + last.padding[p + 1]

C12_Witness ==
    /\ IsLayoutCall
    /\ last.format = DRM_FORMAT_YVU420
    /\ last.stride = 1
    /\ last.aligned_height = 3
    /\ last.padding[2] > 0
    /\ bos[last.bo].strides[2] = 1
    /\ bos[last.bo].sizes[2] = 2 + last.padding[2]
    /\ bos[last.bo].sizes[1] = 3 + last.padding[1]

(***************************************************************************)
(* Dumb-buffer creation (drv_dumb_bo_create_ex).  The request handed to    *)
(* DRM_IOCTL_MODE_CREATE_DUMB is kept as a record; the kernel answers with *)
(* a handle, a pitch of at least width * bpp / 8 bytes, rounded up to the   *)
(* driver's pitch alignment, and the size pitch * height.                  *)
(***************************************************************************)
MaxWidth == 3
BO_QUIRK_NONE == {}
BO_QUIRK_DUMB32BPP == {"BO_QUIRK_DUMB32BPP"}

\* every special case aligned to 16 pixels
DumbAlignedWidth16(format, width) ==
    IF format \in {DRM_FORMAT_R16, DRM_FORMAT_YVU420_ANDROID}
    THEN ALIGN(width, 16)
    ELSE width

\* aligned_width after the switch on the format
DumbAlignedWidth(format, width) ==
    CASE format = DRM_FORMAT_R16 -> ALIGN(width, 16)
      [] format = DRM_FORMAT_YVU420_ANDROID -> ALIGN(width, 32)
      [] OTHER -> width

\* height after the switch: the Android format takes the bo's own height
DumbLayoutHeight(bo, format, height) ==
    IF format = DRM_FORMAT_YVU420_ANDROID THEN bo.height ELSE height

\* aligned_height after the switch on the format
DumbAlignedHeight(bo, format, height) ==
    CASE format = DRM_FORMAT_YVU420_ANDROID ->
            3 * DIV_ROUND_UP(DumbLayoutHeight(bo, format, height), 2)
      [] format \in {DRM_FORMAT_YVU420, DRM_FORMAT_NV12, DRM_FORMAT_NV21} ->
            3 * DIV_ROUND_UP(height, 2)
      [] OTHER -> height

\* the effective width with the division rounded down
Dumb32bppWidthRoundedDown(aligned_width, format) ==
    (aligned_width * layout_from_format(format).bytes_per_pixel[1]) \div 4

\* the effective width under BO_QUIRK_DUMB32BPP
Dumb32bppWidth(aligned_width, format) ==
    DIV_ROUND_UP(aligned_width * layout_from_format(format).bytes_per_pixel[1], 4)

\* struct drm_mode_create_dumb as filled in before the ioctl
CreateDumbRequest(bo, width, height, format, quirks) ==
    LET aligned_width == DumbAlignedWidth(format, width)
    IN [width |-> IF quirks \cap BO_QUIRK_DUMB32BPP # {}
                  THEN Dumb32bppWidth(aligned_width, format)
                  ELSE aligned_width,
        height |-> DumbAlignedHeight(bo, format, height),
        bpp |-> IF quirks \cap BO_QUIRK_DUMB32BPP # {}
                THEN 32
                ELSE layout_from_format(format).bytes_per_pixel[1] * 8,
        flags |-> 0]

\* drmIoctl(fd, DRM_IOCTL_MODE_CREATE_DUMB, &create_dumb)
CreateDumbIoctl(k, create_dumb, fail, pitch_align) ==
    LET c == Vc4CreateBoIoctl(k, fail)
        pitch == ALIGN(create_dumb.width * DIV_ROUND_UP(create_dumb.bpp, 8), pitch_align)
    IN [ret |-> c.ret, errno |-> c.errno, handle |-> c.handle, kernel |-> c.kernel,
        pitch |-> IF c.ret = 0 THEN pitch ELSE 0,
        size |-> IF c.ret = 0 THEN pitch * create_dumb.height ELSE 0]

drv_dumb_bo_create_ex(bo, width, height, format, use_flags, quirks, k, fail, pitch_align, nd) ==
    LET create_dumb == CreateDumbRequest(bo, width, height, format, quirks)
        layout_height == DumbLayoutHeight(bo, format, height)
        c == CreateDumbIoctl(k, create_dumb, fail, pitch_align)
    IN IF c.ret # 0
       THEN [bo |-> bo, kernel |-> k, ret |-> -c.errno, assert_failed |-> FALSE,
             create_dumb |-> create_dumb]
       ELSE IF ~nd /\ LayoutAssertFails(bo, c.pitch, layout_height, format)
       THEN [bo |-> bo, kernel |-> c.kernel, ret |-> 0, assert_failed |-> TRUE,
             create_dumb |-> create_dumb]
       ELSE LET laid == drv_bo_from_format(bo, c.pitch, layout_height, format).bo
            IN [bo |-> [laid EXCEPT
                          !.handles = [p \in Planes |->
                                         IF p <= laid.num_planes THEN c.handle ELSE @[p]],
                          !.total_size = c.size],
                kernel |-> c.kernel, ret |-> 0, assert_failed |-> FALSE,
                create_dumb |-> create_dumb]

drv_dumb_bo_create(bo, width, height, format, use_flags, k, fail, pitch_align, nd) ==
    drv_dumb_bo_create_ex(bo, width, height, format, use_flags, BO_QUIRK_NONE,
                          k, fail, pitch_align, nd)

DumbFormats ==
    {DRM_FORMAT_R8, DRM_FORMAT_R16, DRM_FORMAT_RGB565, DRM_FORMAT_RGB888,
     DRM_FORMAT_XRGB8888, DRM_FORMAT_NV12, DRM_FORMAT_NV21, DRM_FORMAT_P010,
     DRM_FORMAT_YVU420, DRM_FORMAT_YVU420_ANDROID}
DumbWidths == (1..MaxWidth) \cup {31, 32, 33, 100}
DumbHeights == (1..MaxHeight) \cup {75}
PitchAligns == {1, 64}

InitDumb ==
    /\ EmptyDriver
    /\ ndebug \in BOOLEAN
    /\ bos = [b \in BoIds |-> NewBo(DRM_FORMAT_XRGB8888, 1, 1)]

\* drv_bo_new ahead of a backend create
DrvBoNewForCreate ==
    \E b \in LayoutBos, format \in DumbFormats, width \in DumbWidths, height \in DumbHeights :
        /\ last.op = "none"
        /\ bos' = [bos EXCEPT ![b] = NewBo(format, width, height)]
        /\ last' = [op |-> "drv_bo_new", bo |-> b]
        /\ UNCHANGED <<buffer_table, kernel, mappings, vmas, combos, priv, ndebug, aborted>>

DumbCreateCall(b, name, height, quirks, fail, pitch_align) ==
    LET r == drv_dumb_bo_create_ex(bos[b], bos[b].width, height, bos[b].format,
                                   BO_USE_NONE, quirks, kernel, fail, pitch_align, ndebug)
    IN /\ ~aborted
       /\ last.op = "drv_bo_new" /\ last.bo = b
       /\ kernel' = r.kernel
       /\ aborted' = r.assert_failed
       /\ bos' = [bos EXCEPT ![b] = IF r.ret = 0 /\ ~r.assert_failed
                                     THEN [r.bo EXCEPT !.live = TRUE]
                                     ELSE r.bo]
       /\ buffer_table' = IF r.ret = 0 /\ ~r.assert_failed
                          THEN IncrementPlanes(buffer_table, r.bo, 0)
                          ELSE buffer_table
       /\ last' = [op |-> IF r.assert_failed THEN "abort" ELSE name,
                   bo |-> b, before |-> bos[b], height |-> height, quirks |-> quirks,
                   create_dumb |-> r.create_dumb, result |-> r.ret]
       /\ UNCHANGED <<mappings, vmas, combos, priv, ndebug>>

DrvDumbBoCreateEx ==
    \E b \in LayoutBos, height \in DumbHeights, fail \in BOOLEAN, pitch_align \in PitchAligns :
        DumbCreateCall(b, "drv_dumb_bo_create_ex", height, BO_QUIRK_DUMB32BPP,
                       fail, pitch_align)

DrvDumbBoCreate ==
    \E b \in LayoutBos, height \in DumbHeights, fail \in BOOLEAN, pitch_align \in PitchAligns :
        DumbCreateCall(b, "drv_dumb_bo_create", height, BO_QUIRK_NONE, fail, pitch_align)

NextDumb == DrvBoNewForCreate \/ DrvDumbBoCreateEx \/ DrvDumbBoCreate

SpecDumb == InitDumb /\ [][NextDumb]_vars

IsDumbCreate == last.op \in {"drv_dumb_bo_create_ex", "drv_dumb_bo_create"}

DumbHeightOf ==
    IF last.before.format = DRM_FORMAT_YVU420_ANDROID THEN last.before.height ELSE last.height

\* C14: for every catalog format with more than one plane the height asked
\* of the kernel is 3 * ceil(height / 2); for every single-plane format it
\* is the given height.
C14_ChromaFormatsInflateHeight ==
    IsDumbCreate =>
        IF drv_num_planes_from_format(last.before.format) > 1
        THEN last.create_dumb.height = 3 * Ceil(DumbHeightOf, 2)
        ELSE last.create_dumb.height = DumbHeightOf

\* the width after the format's alignment rule, before any quirk
AlignedWidthOf(format, width) ==
    CASE format = DRM_FORMAT_R16 -> 16 * Ceil(width, 16)
      [] format = DRM_FORMAT_YVU420_ANDROID -> 32 * Ceil(width, 32)
      [] OTHER -> width

\* C15: with BO_QUIRK_DUMB32BPP the request has depth 32 and a width W' with
\* aligned_width * bytes_per_pixel[0] <= 4 * W' < aligned_width *
\* bytes_per_pixel[0] + 4, so the pitch covers a row of the real pixel size;
\* without the quirk the depth is bytes_per_pixel[0] * 8 and the width is
\* aligned_width.  The products stay within 32 bits.
C15_Dumb32bppWidth ==
    IsDumbCreate =>
        LET row == AlignedWidthOf(last.before.format, last.before.width)
                     * layout_from_format(last.before.format).bytes_per_pixel[1]
        IN /\ row + 3 <= 2147483647
           /\ IF last.quirks \cap BO_QUIRK_DUMB32BPP # {}
              THEN /\ last.create_dumb.bpp = 32
                   /\ 4 * last.create_dumb.width >= row
                   /\ 4 * last.create_dumb.width - row < 4
              ELSE /\ last.create_dumb.bpp =
                         layout_from_format(last.before.format).bytes_per_pixel[1] * 8
                   /\ last.create_dumb.width =
                         AlignedWidthOf(last.before.format, last.before.width)
           /\ last.result = 0 => bos[last.bo].strides[1] >= row

C15_Witness ==
    /\ last.op = "drv_dumb_bo_create_ex"
    /\ last.quirks = BO_QUIRK_DUMB32BPP
    /\ last.before.format = DRM_FORMAT_RGB888
    /\ last.before.width = 33
    /\ last.create_dumb.width = 25
    /\ last.create_dumb.bpp = 32
    /\ last.result = 0
    /\ bos[last.bo].strides[1] = 100

(***************************************************************************)
(* Geometry recomputation: the layout computation run again, on a buffer   *)
(* object that may already carry a geometry, with the registry and the     *)
(* ledger in whatever state the calls in between left them.                *)
(***************************************************************************)
MaxLayouts == 2
RecomputeFormats == {DRM_FORMAT_XRGB8888, DRM_FORMAT_NV12, DRM_FORMAT_YVU420_ANDROID}
RecomputeStrides == {1, 32}
RecomputeHeights == {1, 2}

\* the geometry fields of a buffer object
Geometry(bo) ==
    [strides |-> bo.strides, sizes |-> bo.sizes, offsets |-> bo.offsets,
     total_size |-> bo.total_size]

RecomputePaddings == {ZeroPlanes, [p \in Planes |-> p]}

NoLayoutYet == [n |-> 0]

\* the layout calls made so far, as the last call recorded them
LayoutsSoFar == IF last.op = "none" THEN NoLayoutYet ELSE last.layout

\* the layout call before the one to be made, without its own history
PreviousCall ==
    IF LayoutsSoFar.n = 0 THEN NoLayoutYet
    ELSE [n |-> LayoutsSoFar.n, call |-> LayoutsSoFar.call]

\* bo1 is fresh from drv_bo_new; bo2 is fresh too, or carries the geometry of
\* an earlier three-plane layout
InitRecompute ==
    /\ EmptyDriver
    /\ ndebug \in BOOLEAN
    /\ \E h \in RecomputeHeights, used \in BOOLEAN :
         bos = [b \in BoIds |->
                  IF b = "bo2" /\ used
                  THEN drv_bo_from_format(NewBo(DRM_FORMAT_YVU420, h, h), 2, h,
                                          DRM_FORMAT_YVU420).bo
                  ELSE NewBo(DRM_FORMAT_NV12, h, h)]

\* a registration and a reference taken between two layout computations
DrvAddCombinationBetween ==
    /\ ~aborted
    /\ combos = <<>>
    /\ LayoutsSoFar.n < MaxLayouts
    /\ combos' = drv_add_combination(combos, DRM_FORMAT_NV12, LINEAR_METADATA, BO_USE_SCANOUT)
    /\ buffer_table' = drv_increment_reference_count(buffer_table, bos["bo1"], 0)
    /\ last' = [op |-> "drv_add_combination", layout |-> LayoutsSoFar]
    /\ UNCHANGED <<bos, kernel, mappings, vmas, priv, ndebug, aborted>>

DrvBoFromFormatAgain ==
    \E b \in BoIds, stride \in RecomputeStrides, h \in RecomputeHeights,
       format \in RecomputeFormats, padding \in RecomputePaddings :
        /\ ~aborted
        /\ h = bos[b].height
        /\ LayoutsSoFar.n < MaxLayouts
        /\ IF ~ndebug /\ LayoutAssertFails(bos[b], stride, h, format)
           THEN /\ aborted' = TRUE
                /\ UNCHANGED bos
                /\ last' = [op |-> "abort", layout |-> LayoutsSoFar]
           ELSE LET r == drv_bo_from_format_and_padding(bos[b], stride, h, format, padding)
                    call == [bo |-> b, stride |-> stride, aligned_height |-> h,
                             format |-> format, padding |-> padding,
                             before |-> Geometry(bos[b]), geometry |-> Geometry(r.bo),
                             registered |-> Len(combos),
                             references |-> drv_get_reference_count(buffer_table,
                                                                   bos["bo1"], 0)]
                IN /\ bos' = [bos EXCEPT ![b] = r.bo]
                   /\ last' = [op |-> "drv_bo_from_format_and_padding",
                               layout |-> [n |-> LayoutsSoFar.n + 1, call |-> call,
                                           earlier |-> PreviousCall]]
                   /\ UNCHANGED aborted
        /\ UNCHANGED <<buffer_table, kernel, mappings, vmas, combos, priv, ndebug>>

NextRecompute == DrvAddCombinationBetween \/ DrvBoFromFormatAgain

SpecRecompute == InitRecompute /\ [][NextRecompute]_vars

SameInputs(c, d) ==
    /\ c.format = d.format
    /\ c.stride = d.stride
    /\ c.aligned_height = d.aligned_height
    /\ c.padding = d.padding

\* the geometry of the planes the format has, and the total
SameGeometry(g, h, format) ==
    /\ \A p \in 1..drv_num_planes_from_format(format) :
          /\ g.strides[p] = h.strides[p]
          /\ g.offsets[p] = h.offsets[p]
          /\ g.sizes[p] = h.sizes[p]
    /\ g.total_size = h.total_size

\* C16: two layout computations with the same format, plane-0 stride,
\* aligned height and padding give the same strides, offsets, sizes and
\* total_size for every plane of the format, on whichever buffer objects and
\* with whatever earlier contents, registry and ledger; and a layout
\* computation changes nothing but the geometry fields of its buffer.
C16_RecomputationIsDeterministic ==
    /\ [](LayoutsSoFar.n >= 2 =>
            (SameInputs(LayoutsSoFar.call, LayoutsSoFar.earlier.call) =>
                SameGeometry(LayoutsSoFar.call.geometry,
                             LayoutsSoFar.earlier.call.geometry,
                             LayoutsSoFar.call.format)))
    /\ [][last'.op = "drv_bo_from_format_and_padding" =>
            LET b == last'.layout.call.bo
            IN /\ UNCHANGED <<buffer_table, kernel, mappings, vmas, combos>>
               /\ \A c \in BoIds \ {b} : bos'[c] = bos[c]
               /\ bos'[b] = [bos[b] EXCEPT !.strides = bos'[b].strides,
                                           !.sizes = bos'[b].sizes,
                                           !.offsets = bos'[b].offsets,
                                           !.total_size = bos'[b].total_size]]_vars

C16_Witness ==
    /\ LayoutsSoFar.n = 2
    /\ last.op = "drv_bo_from_format_and_padding"
    /\ SameInputs(LayoutsSoFar.call, LayoutsSoFar.earlier.call)
    /\ LayoutsSoFar.call.format = DRM_FORMAT_NV12
    /\ LayoutsSoFar.call.bo # LayoutsSoFar.earlier.call.bo
    /\ LayoutsSoFar.call.before.total_size > 0
    /\ LayoutsSoFar.earlier.call.before.total_size = 0
    /\ LayoutsSoFar.call.registered # LayoutsSoFar.earlier.call.registered
    /\ LayoutsSoFar.call.references # LayoutsSoFar.earlier.call.references
    /\ LayoutsSoFar.call.before.strides[3] > 0
    /\ LayoutsSoFar.call.geometry.offsets[2] > 0

(***************************************************************************)
(* Claims about formats outside the catalog.                               *)
(***************************************************************************)
\* the last call was a layout computation, completed or stopped by an assert
LayoutCallMade ==
    \/ last.op \in {"drv_bo_from_format_and_padding", "drv_bo_from_format"}
    \/ last.op = "abort" /\ last.in \in {"drv_bo_from_format_and_padding",
                                         "drv_bo_from_format"}

\* C17: a layout computation for a format absent from the catalog returns an
\* error to its caller and leaves the geometry of the buffer as it was; it
\* returns success only for catalog formats.
C17_UnsupportedFormatFails ==
    (LayoutCallMade /\ layout_from_format(last.format) = NULL_LAYOUT) =>
        /\ last.op # "abort"
        /\ last.ret < 0
        /\ Geometry(bos[last.bo]) = Geometry(NewBo(last.format, 1, 1))

(***************************************************************************)
(* Plane counts (drv_num_planes_from_format, drv_num_planes_from_modifier).*)
(* The backend's num_planes_from_modifier hook is a pointer that may be    *)
(* NULL; hook_ret is what the hook answers when it is called.              *)
(***************************************************************************)
\* the hook called whenever it exists, before the format is looked up
NumPlanesHookFirst(hook, hook_ret, format, modifier) ==
    IF hook /\ modifier # DRM_FORMAT_MOD_INVALID /\ modifier # DRM_FORMAT_MOD_LINEAR
    THEN [ret |-> hook_ret, consulted |-> TRUE]
    ELSE [ret |-> drv_num_planes_from_format(format), consulted |-> FALSE]

drv_num_planes_from_modifier(hook, hook_ret, format, modifier) ==
    LET planes == drv_num_planes_from_format(format)
    IN IF planes = 0
       THEN [ret |-> 0, consulted |-> FALSE]
       ELSE IF hook /\ modifier # DRM_FORMAT_MOD_INVALID /\ modifier # DRM_FORMAT_MOD_LINEAR
       THEN [ret |-> hook_ret, consulted |-> TRUE]
       ELSE [ret |-> planes, consulted |-> FALSE]

\* every format code with a case in layout_from_format
CatalogFormats ==
    Packed1bppFormats \cup Packed2bppFormats \cup Packed3bppFormats
      \cup Packed4bppFormats \cup Packed8bppFormats
      \cup {DRM_FORMAT_YVU420, DRM_FORMAT_YVU420_ANDROID, DRM_FORMAT_NV12,
            DRM_FORMAT_NV21, DRM_FORMAT_P010}

\* format codes with no case there
UnknownFormats == {DRM_FORMAT_NONE, "NV16", "YUV420"}

PlaneModifiers ==
    {DRM_FORMAT_MOD_LINEAR, DRM_FORMAT_MOD_INVALID, I915_FORMAT_MOD_Y_TILED}

InitPlanes ==
    /\ EmptyDriver
    /\ ndebug = FALSE
    /\ bos = [b \in BoIds |-> NewBo(DRM_FORMAT_XRGB8888, 1, 1)]

DrvNumPlanesFromFormat ==
    \E format \in CatalogFormats \cup UnknownFormats :
        /\ last.op = "none"
        /\ last' = [op |-> "drv_num_planes_from_format", format |-> format,
                    ret |-> drv_num_planes_from_format(format)]
        /\ UNCHANGED <<bos, buffer_table, kernel, mappings, vmas, combos, priv, ndebug, aborted>>

DrvNumPlanesFromModifier ==
    \E format \in CatalogFormats \cup UnknownFormats, modifier \in PlaneModifiers,
       hook \in BOOLEAN, hook_ret \in 1..DRV_MAX_PLANES :
        LET r == drv_num_planes_from_modifier(hook, hook_ret, format, modifier)
        IN /\ last.op = "none"
           /\ last' = [op |-> "drv_num_planes_from_modifier", format |-> format,
                       modifier |-> modifier, hook |-> hook, hook_ret |-> hook_ret,
                       ret |-> r.ret, consulted |-> r.consulted]
           /\ UNCHANGED <<bos, buffer_table, kernel, mappings, vmas, combos, priv, ndebug, aborted>>

NextPlanes == DrvNumPlanesFromFormat \/ DrvNumPlanesFromModifier

SpecPlanes == InitPlanes /\ [][NextPlanes]_vars

\* C18: drv_num_planes_from_format answers a count from 1 to 4 for a catalog
\* format and 0 for any other; drv_num_planes_from_modifier answers 0 for an
\* unsupported format without calling the backend, calls the backend's hook
\* only when the hook exists and the modifier is neither INVALID nor LINEAR,
\* and otherwise answers the catalog's plane count.
C18_PlaneCounts ==
    /\ last.op = "drv_num_planes_from_format" =>
          IF last.format \in CatalogFormats
          THEN last.ret \in 1..DRV_MAX_PLANES
          ELSE last.ret = 0
    /\ last.op = "drv_num_planes_from_modifier" =>
          /\ last.format \notin CatalogFormats => last.ret = 0 /\ ~last.consulted
          /\ last.consulted <=>
                /\ last.format \in CatalogFormats
                /\ last.hook
                /\ last.modifier \notin {DRM_FORMAT_MOD_INVALID, DRM_FORMAT_MOD_LINEAR}
          /\ last.consulted => last.ret = last.hook_ret
          /\ (~last.consulted /\ last.format \in CatalogFormats) =>
                last.ret = layout_from_format(last.format).num_planes

C18_Witness ==
    /\ last.op = "drv_num_planes_from_modifier"
    /\ last.format = DRM_FORMAT_NONE
    /\ last.hook
    /\ last.modifier = I915_FORMAT_MOD_Y_TILED
    /\ last.ret = 0
    /\ ~last.consulted

(***************************************************************************)
(* The magma backend's bo_create.  MAGMA_MAX_DRM_FORMAT_MODIFIERS is the   *)
(* length of create_info.drm_format_modifiers and comes from magma.h; the  *)
(* code only compares against it, and the model takes a small value.  The  *)
(* image creator (magma_virt_create_image) belongs to the magma library:   *)
(* it reads the candidates up to the INVALID terminator and settles on one *)
(* of them, or on a modifier of its own when there is none.                *)
(***************************************************************************)
MAGMA_MAX_DRM_FORMAT_MODIFIERS == 3
GBM_BO_USE_SCANOUT == {"GBM_BO_USE_SCANOUT"}
GBM_BO_USE_RENDERING == {"GBM_BO_USE_RENDERING"}
GBM_BO_USE_LINEAR == {"GBM_BO_USE_LINEAR"}
MagmaModifiers ==
    {DRM_FORMAT_MOD_LINEAR, I915_FORMAT_MOD_X_TILED, I915_FORMAT_MOD_Y_TILED}

\* create_info.drm_format_modifiers after the zero initialisation
ZeroModifiers == [i \in 1..MAGMA_MAX_DRM_FORMAT_MODIFIERS |-> DRM_FORMAT_MOD_LINEAR]

\* the array with the caller's list copied in whatever the usage says
CreateInfoIgnoringLinear(use_flags, modifiers) ==
    [i \in 1..MAGMA_MAX_DRM_FORMAT_MODIFIERS |->
        IF i <= Len(modifiers) THEN modifiers[i]
        ELSE IF i = Len(modifiers) + 1 THEN DRM_FORMAT_MOD_INVALID
        ELSE ZeroModifiers[i]]

\* create_info.drm_format_modifiers as bo_create fills it (count below the
\* array length)
CreateInfoModifiers(use_flags, modifiers) ==
    IF use_flags \cap GBM_BO_USE_LINEAR # {}
    THEN [i \in 1..MAGMA_MAX_DRM_FORMAT_MODIFIERS |->
            IF i = 1 THEN DRM_FORMAT_MOD_LINEAR
            ELSE IF i = 2 THEN DRM_FORMAT_MOD_INVALID
            ELSE ZeroModifiers[i]]
    ELSE [i \in 1..MAGMA_MAX_DRM_FORMAT_MODIFIERS |->
            IF i <= Len(modifiers) THEN modifiers[i]
            ELSE IF i = Len(modifiers) + 1 THEN DRM_FORMAT_MOD_INVALID
            ELSE ZeroModifiers[i]]

\* the candidates the creator sees: the entries before the first INVALID
RECURSIVE CandidatesUpToTerminator(_, _)
CandidatesUpToTerminator(array, i) ==
    IF i > Len(array) \/ array[i] = DRM_FORMAT_MOD_INVALID THEN <<>>
    ELSE <<array[i]>> \o CandidatesUpToTerminator(array, i + 1)

\* magma_virt_create_image followed by magma_virt_get_image_info; choice is
\* the modifier the creator would take of its own
MagmaVirtCreateImage(k, array, fail, choice) ==
    LET candidates == CandidatesUpToTerminator(array, 1)
        c == Vc4CreateBoIoctl(k, fail = "create")
    IN IF c.ret # 0
       THEN [status |-> "create failed", image |-> 0, kernel |-> k,
             modifier |-> DRM_FORMAT_MOD_INVALID]
       ELSE IF fail = "info"
       THEN [status |-> "info failed", image |-> 0, kernel |-> k,
             modifier |-> DRM_FORMAT_MOD_INVALID]
       ELSE [status |-> "ok", image |-> c.handle, kernel |-> c.kernel,
             modifier |-> IF candidates = <<>> \/ Occurs(candidates, choice)
                          THEN choice
                          ELSE candidates[1]]

bo_create(bo, width, height, format, use_flags, modifiers, k, fail, choice) ==
    IF Len(modifiers) >= MAGMA_MAX_DRM_FORMAT_MODIFIERS
    THEN [bo |-> bo, kernel |-> k, ret |-> -Errno.EINVAL, asked |-> FALSE,
          handed |-> <<>>, modifier |-> DRM_FORMAT_MOD_INVALID]
    ELSE LET array == CreateInfoModifiers(use_flags, modifiers)
             r == MagmaVirtCreateImage(k, array, fail, choice)
         IN IF r.status # "ok"
            THEN [bo |-> bo, kernel |-> k, ret |-> -Errno.EINVAL, asked |-> TRUE,
                  handed |-> array, modifier |-> DRM_FORMAT_MOD_INVALID]
            ELSE [bo |-> [bo EXCEPT !.total_size = 4 * width * height,
                                    !.sizes[1] = 4 * width * height,
                                    !.handles[1] = r.image,
                                    !.offsets = ZeroPlanes,
                                    !.strides = <<4 * width, 0, 0, 0>>],
                  kernel |-> r.kernel, ret |-> 0, asked |-> TRUE,
                  handed |-> array, modifier |-> r.modifier]

magma_bo_create(bo, width, height, format, use_flags, k, fail, choice) ==
    bo_create(bo, width, height, format, use_flags, <<>>, k, fail, choice)

magma_bo_create_with_modifiers(bo, width, height, format, modifiers, k, fail, choice) ==
    bo_create(bo, width, height, format, {}, modifiers, k, fail, choice)

MagmaFails == {"none", "create", "info"}

InitMagma ==
    /\ EmptyDriver
    /\ ndebug = FALSE
    /\ bos = [b \in BoIds |-> NewBo(DRM_FORMAT_XRGB8888, 1, 1)]

MagmaCreated(b, r, call) ==
    /\ kernel' = r.kernel
    /\ IF r.ret # 0
       THEN UNCHANGED <<bos, buffer_table>>
       ELSE /\ bos' = [bos EXCEPT ![b] = [r.bo EXCEPT !.live = TRUE]]
            /\ buffer_table' = IncrementPlanes(buffer_table, r.bo, 0)
    /\ last' = [call EXCEPT !.ret = r.ret, !.asked = r.asked, !.handed = r.handed,
                            !.modifier = r.modifier]
    /\ UNCHANGED <<mappings, vmas, combos, priv, ndebug, aborted>>

NoResult == [ret |-> 0, asked |-> FALSE, handed |-> <<>>, modifier |-> DRM_FORMAT_MOD_INVALID]

MagmaBoCreate ==
    \E b \in BoIds, use_flags \in SUBSET (GBM_BO_USE_SCANOUT \cup GBM_BO_USE_RENDERING
                                           \cup GBM_BO_USE_LINEAR),
       fail \in MagmaFails, choice \in MagmaModifiers :
        /\ ~bos[b].live
        /\ MagmaCreated(b,
              magma_bo_create(NewBo(DRM_FORMAT_XRGB8888, 1, 1), 1, 1, DRM_FORMAT_XRGB8888,
                              use_flags, kernel, fail, choice),
              [op |-> "magma_bo_create", use_flags |-> use_flags, modifiers |-> <<>>]
                 @@ NoResult)

MagmaBoCreateWithModifiers ==
    \E b \in LayoutBos,
       modifiers \in SeqsUpTo(MagmaModifiers, MAGMA_MAX_DRM_FORMAT_MODIFIERS + 1),
       fail \in MagmaFails, choice \in MagmaModifiers :
        /\ ~bos[b].live
        /\ MagmaCreated(b,
              magma_bo_create_with_modifiers(NewBo(DRM_FORMAT_XRGB8888, 1, 1), 1, 1,
                                             DRM_FORMAT_XRGB8888, modifiers, kernel,
                                             fail, choice),
              [op |-> "magma_bo_create_with_modifiers", use_flags |-> {},
               modifiers |-> modifiers] @@ NoResult)

NextMagma == MagmaBoCreate \/ MagmaBoCreateWithModifiers

SpecMagma == InitMagma /\ [][NextMagma]_vars

IsMagmaCreate == last.op \in {"magma_bo_create", "magma_bo_create_with_modifiers"}

\* C19: in the magma backend a create whose usage has the LINEAR bit hands
\* the image creator the list [LINEAR] closed by INVALID, whatever the other
\* bits, and the buffer's modifier is LINEAR; a create with fewer than
\* MAGMA_MAX_DRM_FORMAT_MODIFIERS modifiers hands over the caller's list in
\* order closed by INVALID and the modifier is one of the list; a list of
\* MAGMA_MAX_DRM_FORMAT_MODIFIERS entries or more gets -EINVAL and no image
\* is created.
C19_MagmaCandidates ==
    IsMagmaCreate =>
        /\ last.use_flags \cap GBM_BO_USE_LINEAR # {} =>
              /\ last.asked
              /\ last.handed[1] = DRM_FORMAT_MOD_LINEAR
              /\ last.handed[2] = DRM_FORMAT_MOD_INVALID
              /\ last.ret = 0 => last.modifier = DRM_FORMAT_MOD_LINEAR
        /\ (last.op = "magma_bo_create_with_modifiers"
              /\ Len(last.modifiers) < MAGMA_MAX_DRM_FORMAT_MODIFIERS) =>
              /\ last.asked
              /\ \A i \in 1..Len(last.modifiers) : last.handed[i] = last.modifiers[i]
              /\ last.handed[Len(last.modifiers) + 1] = DRM_FORMAT_MOD_INVALID
              /\ (last.ret = 0 /\ last.modifiers # <<>>) =>
                    Occurs(last.modifiers, last.modifier)
        /\ Len(last.modifiers) >= MAGMA_MAX_DRM_FORMAT_MODIFIERS =>
              /\ last.ret = -Errno.EINVAL
              /\ ~last.asked

C19_Witness ==
    /\ last.op = "magma_bo_create"
    /\ last.use_flags = GBM_BO_USE_RENDERING \cup GBM_BO_USE_SCANOUT \cup GBM_BO_USE_LINEAR
    /\ last.ret = 0
    /\ last.modifier = DRM_FORMAT_MOD_LINEAR
    /\ last.handed[2] = DRM_FORMAT_MOD_INVALID
    /\ bos["bo1"].live
    /\ bos["bo2"].live

(***************************************************************************)
(* Claims about the references held by the mapping cache.                  *)
(***************************************************************************)
\* C20: in every state reached through mapping and drv_mapping_destroy each
\* entry of the mapping cache refers to a vma of refcount at least 1, also
\* after drv_mapping_destroy returned early on a failed unmap.
C20_CachedVmasAreReferenced ==
    \A i \in 1..Len(mappings) : vmas[mappings[i].vma].refcount >= 1

(***************************************************************************)
(* The entries drv_mapping_destroy has no business with.                   *)
(***************************************************************************)
\* the entries of the cache whose vma handle is no plane handle of bo
ForeignEntries(ms, vs, bo) ==
    SelectSeq(ms, LAMBDA m : vs[m.vma].handle \notin HandlesOf(bo))

\* a is b with some entries taken out, the others in the order they had
RECURSIVE IsSubsequence(_, _)
IsSubsequence(a, b) ==
    IF a = <<>> THEN TRUE
    ELSE IF b = <<>> THEN FALSE
    ELSE IF Head(a) = Head(b) THEN IsSubsequence(Tail(a), Tail(b))
    ELSE IsSubsequence(a, Tail(b))

\* C21: drv_mapping_destroy(bo) leaves untouched every cache entry whose vma
\* handle is no plane handle of bo: each such entry remains in the cache, its
\* vma keeps its refcount and is not unmapped, and the entries that survive
\* the call keep the relative order they had before it.
C21_ForeignEntriesUntouched ==
    [][last'.op = "drv_mapping_destroy" =>
         LET bo == bos[last'.bo]
             events == last'.events
         IN /\ ForeignEntries(mappings', vmas, bo) = ForeignEntries(mappings, vmas, bo)
            /\ Len(vmas') = Len(vmas)
            /\ \A v \in 1..Len(vmas) :
                  vmas[v].handle \notin HandlesOf(bo) =>
                      /\ vmas'[v] = vmas[v]
                      /\ DecrementsOf(events, v) = {}
                      /\ UnmapsOf(events, v) = {}
            /\ IsSubsequence(mappings', mappings)]_vars

C21_Witness ==
    /\ last.op = "drv_mapping_destroy"
    /\ last.bo = "bo2"
    /\ last.ret = 0
    /\ Len(last.events) = 1
    /\ last.events[1].unmap
    /\ Len(mappings) = 2
    /\ vmas[mappings[1].vma].handle = 2
    /\ vmas[mappings[2].vma].handle = 1
    /\ \A i \in 1..2 : vmas[mappings[i].vma].refcount = 1 /\ vmas[mappings[i].vma].alive

(***************************************************************************)
(* Mapping a dumb buffer.  The vma is the caller's object; the function    *)
(* adds to its length.  The kernel answers DRM_IOCTL_MODE_MAP_DUMB with a  *)
(* fake offset for the handle, and mmap gives an address or fails.         *)
(***************************************************************************)
\* ((void *) -1)
MAP_FAILED == -1

\* DRM_IOCTL_MODE_MAP_DUMB: the offset at which the handle can be mapped
MapDumbIoctl(handle, fail) ==
    IF fail THEN [ret |-> -1, offset |-> 0]
    ELSE [ret |-> 0, offset |-> 4096 * handle]

\* the length grows by the size of the named plane only
MapLengthNamedPlaneOnly(bo, plane, i, length) == length + bo.sizes[plane + 1]

\* for (i = 0; i < num_planes; i++) if (handles[i] == handles[plane])
\*     vma->length += sizes[i];
RECURSIVE MapLengthLoop(_, _, _, _)
MapLengthLoop(bo, plane, i, length) ==
    IF i >= bo.num_planes THEN length
    ELSE MapLengthLoop(bo, plane, i + 1,
                       IF bo.handles[i + 1] = bo.handles[plane + 1]
                       THEN length + bo.sizes[i + 1]
                       ELSE length)

\* mmap(0, length, prot, MAP_SHARED, fd, offset): the address of the mapping,
\* which the model takes to be the offset mapped; a length of 0 is refused
Mmap(length, offset, fail) ==
    IF fail \/ length = 0 THEN MAP_FAILED ELSE offset

drv_dumb_bo_map(bo, vma, plane, map_flags, ioctl_fail, mmap_fail) ==
    LET map_dumb == MapDumbIoctl(bo.handles[plane + 1], ioctl_fail)
        length == MapLengthLoop(bo, plane, 0, vma.length)
    IN IF map_dumb.ret # 0
       THEN [ret |-> MAP_FAILED, vma |-> vma, mapped |-> 0]
       ELSE [ret |-> Mmap(length, map_dumb.offset, mmap_fail),
             vma |-> [vma EXCEPT !.length = length],
             mapped |-> length]

\* the lengths a vma may carry when it is handed in: 0 as allocated, or the
\* length of an earlier mapping
EntryLengths == {0, 4096}

\* a buffer whose planes carry the given handles, laid out for a stride and
\* a height
BoLaidOut(format, handles, stride, height) ==
    [drv_bo_from_format(BoWithHandles(format, handles), stride, height, format).bo
        EXCEPT !.height = height]

InitDumbMap ==
    /\ EmptyDriver
    /\ ndebug = FALSE
    /\ \E handles \in MapHandleLists, stride \in Strides, height \in Heights :
         bos = [b \in BoIds |->
                  IF b = "bo1"
                  THEN BoLaidOut(FormatOfPlanes(Len(handles)), handles, stride, height)
                  ELSE BoLaidOut(DRM_FORMAT_XRGB8888, <<3>>, 4 * stride, height)]

DrvDumbBoMap ==
    \E b \in BoIds, plane \in 0..2, map_flags \in MapFlags,
       ioctl_fail \in BOOLEAN, mmap_fail \in BOOLEAN, length \in EntryLengths :
        LET vma == [length |-> length]
            r == drv_dumb_bo_map(bos[b], vma, plane, map_flags, ioctl_fail, mmap_fail)
        IN /\ last.op = "none"
           /\ bos[b].live
           /\ plane < bos[b].num_planes
           /\ vmas' = <<r.vma>>
           /\ last' = [op |-> "drv_dumb_bo_map", bo |-> b, plane |-> plane,
                       map_flags |-> map_flags, ioctl_fail |-> ioctl_fail,
                       mmap_fail |-> mmap_fail, before |-> vma, ret |-> r.ret,
                       mapped |-> r.mapped]
           /\ UNCHANGED <<bos, buffer_table, kernel, mappings, combos, priv, ndebug, aborted>>

NextDumbMap == DrvDumbBoMap

SpecDumbMap == InitDumbMap /\ [][NextDumbMap]_vars

\* the planes of bo that carry the handle of plane p
AliasingPlanes(bo, p) ==
    {i \in 0..(bo.num_planes - 1) : bo.handles[i + 1] = bo.handles[p + 1]}

\* the sum of sizes[i] over the planes i of S
RECURSIVE SumOfSizes(_, _)
SumOfSizes(bo, S) ==
    IF S = {} THEN 0
    ELSE LET i == CHOOSE j \in S : TRUE
         IN bo.sizes[i + 1] + SumOfSizes(bo, S \ {i})

\* C22: a successful drv_dumb_bo_map of plane p into a vma of length 0 leaves
\* the vma length, and maps a length, equal to the sum of sizes[i] over the
\* planes i whose handle is plane p's handle, the same value whichever of
\* these planes is named; when the map-offset request fails the call returns
\* MAP_FAILED and the vma length is as it was.
C22_MapLengthCoalescesAliasedPlanes ==
    last.op = "drv_dumb_bo_map" =>
        LET bo == bos[last.bo]
            sum == SumOfSizes(bo, AliasingPlanes(bo, last.plane))
        IN /\ (last.ret # MAP_FAILED /\ last.before.length = 0) =>
                 /\ vmas[1].length = sum
                 /\ last.mapped = sum
                 /\ \A q \in AliasingPlanes(bo, last.plane) :
                       drv_dumb_bo_map(bo, last.before, q, last.map_flags,
                                       FALSE, FALSE).vma.length = sum
           /\ last.ioctl_fail =>
                 /\ last.ret = MAP_FAILED
                 /\ vmas[1].length = last.before.length

C22_Witness ==
    /\ last.op = "drv_dumb_bo_map"
    /\ last.ret # MAP_FAILED
    /\ last.before.length = 0
    /\ bos[last.bo].num_planes = 3
    /\ last.plane = 2
    /\ AliasingPlanes(bos[last.bo], 2) = {0, 2}
    /\ vmas[1].length = bos[last.bo].sizes[1] + bos[last.bo].sizes[3]
    /\ bos[last.bo].sizes[2] > 0

\* the kernel answered with the pitch width * bpp / 8 and no more
ExactPitch ==
    bos[last.bo].strides[1] = last.create_dumb.width * (last.create_dumb.bpp \div 8)

\* C23: after a successful drv_dumb_bo_create_ex or drv_dumb_bo_create, the
\* kernel having returned the pitch width * bpp / 8 and the size pitch *
\* height of the request, offsets[p] + sizes[p] <= total_size for every plane
\* p, the sizes sum to no more than total_size, and all planes carry the one
\* kernel handle.
C23_PlanesInsideAllocation ==
    (IsDumbCreate /\ last.result = 0 /\ ExactPitch) =>
        LET bo == bos[last.bo]
        IN /\ bo.total_size = bo.strides[1] * last.create_dumb.height
           /\ \A p \in 1..bo.num_planes : bo.offsets[p] + bo.sizes[p] <= bo.total_size
           /\ SumSizes(bo.sizes, bo.num_planes) <= bo.total_size
           /\ \A p \in 1..bo.num_planes : bo.handles[p] = bo.handles[1] /\ bo.handles[p] # 0

(***************************************************************************)
(* The stride query beside the layout computation.  A buffer is laid out   *)
(* from the stride the query gives for plane 0 of its format and width.    *)
(***************************************************************************)
InitStride ==
    /\ EmptyDriver
    /\ ndebug = FALSE
    /\ bos = [b \in BoIds |-> NewBo(DRM_FORMAT_XRGB8888, 1, 1)]

DrvStrideFromFormat ==
    \E format \in CatalogFormats, width \in DumbWidths, plane \in 0..(DRV_MAX_PLANES - 1) :
        /\ last.op = "none"
        /\ plane < drv_num_planes_from_format(format)
        /\ last' = [op |-> "drv_stride_from_format", format |-> format, width |-> width,
                    plane |-> plane, ret |-> drv_stride_from_format(format, width, plane)]
        /\ UNCHANGED <<bos, buffer_table, kernel, mappings, vmas, combos, priv, ndebug, aborted>>

DrvBoFromFormatOfWidth ==
    \E b \in LayoutBos, format \in CatalogFormats, width \in DumbWidths, height \in Heights :
        LET stride == drv_stride_from_format(format, width, 0)
            r == drv_bo_from_format(NewBo(format, width, height), stride, height, format)
        IN /\ last.op = "none"
           /\ bos' = [bos EXCEPT ![b] = r.bo]
           /\ last' = [op |-> "drv_bo_from_format", bo |-> b, format |-> format,
                       width |-> width, stride |-> stride, aligned_height |-> height,
                       ret |-> r.ret]
           /\ UNCHANGED <<buffer_table, kernel, mappings, vmas, combos, priv, ndebug, aborted>>

NextStride == DrvStrideFromFormat \/ DrvBoFromFormatOfWidth

SpecStride == InitStride /\ [][NextStride]_vars

\* the stride drv_bo_from_format gives plane p of a buffer of this format
\* and width when the base stride is the query's answer for plane 0
LaidOutStride(format, width, p) ==
    drv_bo_from_format(NewBo(format, width, 1), drv_stride_from_format(format, width, 0),
                       1, format).bo.strides[p + 1]

\* C24: for every catalog format, width and plane p,
\* drv_stride_from_format(format, width, p) is the stride drv_bo_from_format
\* assigns to plane p when given the base stride
\* drv_stride_from_format(format, width, 0), odd widths included.
C24_StrideQueryAgreesWithLayout ==
    /\ last.op = "drv_stride_from_format" =>
          last.ret = LaidOutStride(last.format, last.width, last.plane)
    /\ last.op = "drv_bo_from_format" =>
          \A p \in 0..(bos[last.bo].num_planes - 1) :
              bos[last.bo].strides[p + 1] = drv_stride_from_format(last.format, last.width, p)

(***************************************************************************)
(* The vc4 backend: its init fills the registry, its two create entry      *)
(* points allocate one kernel buffer.  BO_USE_RENDER_MASK and              *)
(* BO_USE_TEXTURE_MASK are groups of usage bits fixed by a header; each is *)
(* kept as one named group.                                                *)
(***************************************************************************)
BO_USE_RENDER_MASK == {"RENDER_MASK"}
BO_USE_TEXTURE_MASK == {"TEXTURE_MASK"}
BO_USE_HW_VIDEO_DECODER == {"HW_VIDEO_DECODER"}
BO_USE_HW_VIDEO_ENCODER == {"HW_VIDEO_ENCODER"}

render_target_formats == <<DRM_FORMAT_ARGB8888, DRM_FORMAT_RGB565, DRM_FORMAT_XRGB8888>>
texture_only_formats == <<DRM_FORMAT_NV12, DRM_FORMAT_YVU420>>

\* the widening applied to every linear record, whatever its format
ModifyLinearEveryRecord(cs) ==
    [combos |-> [i \in 1..Len(cs) |->
                   IF cs[i].metadata.modifier = DRM_FORMAT_MOD_LINEAR
                   THEN [cs[i] EXCEPT !.use_flags = @ \cup BO_USE_CURSOR \cup BO_USE_SCANOUT]
                   ELSE cs[i]],
     ret |-> 0]

drv_modify_linear_combinations(cs) ==
    LET xrgb == drv_modify_combination(cs, DRM_FORMAT_XRGB8888, LINEAR_METADATA,
                                       BO_USE_CURSOR \cup BO_USE_SCANOUT)
        argb == drv_modify_combination(xrgb, DRM_FORMAT_ARGB8888, LINEAR_METADATA,
                                       BO_USE_CURSOR \cup BO_USE_SCANOUT)
    IN [combos |-> argb, ret |-> 0]

\* vc4_init; lengths lists the number of records after each of its five calls
vc4_init(cs) ==
    LET render == drv_add_combinations(cs, render_target_formats, LINEAR_METADATA,
                                       BO_USE_RENDER_MASK)
        texture == drv_add_combinations(render, texture_only_formats, LINEAR_METADATA,
                                        BO_USE_TEXTURE_MASK)
        yvu == drv_modify_combination(texture, DRM_FORMAT_YVU420, LINEAR_METADATA,
                                      BO_USE_HW_VIDEO_ENCODER)
        nv12 == drv_modify_combination(yvu, DRM_FORMAT_NV12, LINEAR_METADATA,
                                       BO_USE_HW_VIDEO_DECODER \cup BO_USE_SCANOUT
                                         \cup BO_USE_HW_VIDEO_ENCODER)
        linear == drv_modify_linear_combinations(nv12)
    IN [combos |-> linear.combos, ret |-> linear.ret,
        lengths |-> <<Len(render), Len(texture), Len(yvu), Len(nv12), Len(linear.combos)>>]

\* the create that takes the first candidate as it comes
Vc4CreateWithFirstModifier(bo, width, height, format, modifiers, k, fail, nd) ==
    LET modifier == IF modifiers = <<>> THEN DRM_FORMAT_MOD_LINEAR ELSE modifiers[1]
        r == vc4_bo_create_for_modifier(bo, width, height, format, modifier, k, fail, nd)
    IN [bo |-> r.bo, kernel |-> r.kernel, ret |-> r.ret,
        assert_failed |-> r.assert_failed, modifier |-> modifier]

\* the result carries the modifier picked
vc4_bo_create_with_modifiers(bo, width, height, format, modifiers, k, fail, nd) ==
    LET modifier_order == <<DRM_FORMAT_MOD_LINEAR>>
        modifier == drv_pick_modifier(modifiers, modifier_order)
        r == vc4_bo_create_for_modifier(bo, width, height, format, modifier, k, fail, nd)
    IN [bo |-> r.bo, kernel |-> r.kernel, ret |-> r.ret,
        assert_failed |-> r.assert_failed, modifier |-> modifier]

Vc4Formats ==
    {DRM_FORMAT_ARGB8888, DRM_FORMAT_RGB565, DRM_FORMAT_XRGB8888, DRM_FORMAT_NV12,
     DRM_FORMAT_YVU420, DRM_FORMAT_R8}
Vc4UseMasks ==
    SUBSET (BO_USE_SCANOUT \cup BO_USE_CURSOR \cup BO_USE_RENDER_MASK
              \cup BO_USE_HW_VIDEO_ENCODER)
Vc4ModifierLists ==
    SeqsUpTo({DRM_FORMAT_MOD_LINEAR, DRM_FORMAT_MOD_BROADCOM_VC4_T_TILED,
              DRM_FORMAT_MOD_INVALID}, 2)

InitVc4 ==
    /\ EmptyDriver
    /\ ndebug = FALSE
    /\ bos = [b \in BoIds |-> NewBo(DRM_FORMAT_XRGB8888, 1, 1)]

\* the backend's init, run once on the new driver instance; the buffer
\* creations below are tried one at a time on the driver it leaves
Vc4Init ==
    LET r == vc4_init(combos)
    IN /\ last.op = "none"
       /\ combos' = r.combos
       /\ last' = [op |-> "vc4_init", ret |-> r.ret, lengths |-> r.lengths]
       /\ UNCHANGED <<bos, buffer_table, kernel, mappings, vmas, priv, ndebug, aborted>>

\* what drv_bo_create does with the result of the backend's create
Vc4Created(b, r, call) ==
    /\ kernel' = r.kernel
    /\ IF r.ret # 0
       THEN UNCHANGED <<bos, buffer_table>>
       ELSE /\ bos' = [bos EXCEPT ![b] = [r.bo EXCEPT !.live = TRUE]]
            /\ buffer_table' = IncrementPlanes(buffer_table, r.bo, 0)
    /\ last' = call
    /\ UNCHANGED <<mappings, vmas, combos, priv, ndebug, aborted>>

Vc4BoCreateAfterInit ==
    \E b \in LayoutBos, format \in Vc4Formats, use_flags \in Vc4UseMasks,
       width \in DumbWidths, height \in Heights, fail \in BOOLEAN :
        LET r == vc4_bo_create(NewBo(format, width, height), width, height, format,
                               use_flags, combos, kernel, fail, ndebug)
        IN /\ last.op = "vc4_init"
           /\ ~bos[b].live
           /\ Vc4Created(b, r, [op |-> "vc4_bo_create", bo |-> b, format |-> format,
                                use_flags |-> use_flags, width |-> width,
                                height |-> height, fail |-> fail, ret |-> r.ret])

Vc4BoCreateWithModifiers ==
    \E b \in LayoutBos, format \in Vc4Formats, modifiers \in Vc4ModifierLists,
       width \in DumbWidths, height \in Heights, fail \in BOOLEAN :
        LET r == vc4_bo_create_with_modifiers(NewBo(format, width, height), width, height,
                                              format, modifiers, kernel, fail, ndebug)
        IN /\ last.op = "vc4_init"
           /\ ~bos[b].live
           /\ Vc4Created(b, r, [op |-> "vc4_bo_create_with_modifiers", bo |-> b,
                                format |-> format, modifiers |-> modifiers,
                                modifier |-> r.modifier, width |-> width,
                                height |-> height, fail |-> fail, ret |-> r.ret])

NextVc4 == Vc4Init \/ Vc4BoCreateAfterInit \/ Vc4BoCreateWithModifiers

SpecVc4 == InitVc4 /\ [][NextVc4]_vars

LinearRecord(format, use_flags) ==
    [format |-> format, metadata |-> LINEAR_METADATA, use_flags |-> use_flags]

\* C25: after vc4_init on an empty registry the registry holds exactly five
\* linear records, ARGB8888, RGB565, XRGB8888, NV12, YVU420 in this order;
\* ARGB8888 and XRGB8888 carry the render mask plus CURSOR and SCANOUT,
\* RGB565 the render mask only, NV12 the texture mask plus HW_VIDEO_DECODER,
\* SCANOUT and HW_VIDEO_ENCODER, YVU420 the texture mask plus
\* HW_VIDEO_ENCODER; no widening call adds a record.
C25_Vc4InitRegistry ==
    last.op # "none" =>
        /\ combos =
             <<LinearRecord(DRM_FORMAT_ARGB8888,
                            BO_USE_RENDER_MASK \cup BO_USE_CURSOR \cup BO_USE_SCANOUT),
               LinearRecord(DRM_FORMAT_RGB565, BO_USE_RENDER_MASK),
               LinearRecord(DRM_FORMAT_XRGB8888,
                            BO_USE_RENDER_MASK \cup BO_USE_CURSOR \cup BO_USE_SCANOUT),
               LinearRecord(DRM_FORMAT_NV12,
                            BO_USE_TEXTURE_MASK \cup BO_USE_HW_VIDEO_DECODER
                              \cup BO_USE_SCANOUT \cup BO_USE_HW_VIDEO_ENCODER),
               LinearRecord(DRM_FORMAT_YVU420,
                            BO_USE_TEXTURE_MASK \cup BO_USE_HW_VIDEO_ENCODER)>>
        /\ last.op = "vc4_init" => last.ret = 0 /\ last.lengths = <<3, 5, 5, 5, 5>>

C25_Witness ==
    /\ last.op = "vc4_init"
    /\ Len(combos) = 5
    /\ combos[2].format = DRM_FORMAT_RGB565
    /\ combos[2].use_flags = BO_USE_RENDER_MASK
    /\ combos[1].use_flags # combos[2].use_flags

\* registries no vc4_init makes, for the paths of vc4_bo_create
TiledRegistries ==
    {<<>>,
     <<[format |-> DRM_FORMAT_XRGB8888,
        metadata |-> [priority |-> 2, tiling |-> 1,
                      modifier |-> DRM_FORMAT_MOD_BROADCOM_VC4_T_TILED],
        use_flags |-> BO_USE_RENDER_MASK],
       LinearRecord(DRM_FORMAT_XRGB8888, BO_USE_RENDER_MASK \cup BO_USE_SCANOUT)>>}

\* C26: vc4_bo_create_with_modifiers picks DRM_FORMAT_MOD_LINEAR for every
\* candidate list, the empty list and a list without LINEAR included, and so
\* never returns -EINVAL on account of the modifier; vc4_bo_create returns
\* -EINVAL when the registry has no matching combination or the matching
\* combination's modifier is not LINEAR.
C26_WithModifiersAlwaysLinear ==
    /\ last.op = "vc4_bo_create_with_modifiers" =>
          /\ last.modifier = DRM_FORMAT_MOD_LINEAR
          /\ last.ret # -Errno.EINVAL
          /\ ~last.fail => last.ret = 0
    /\ last.op = "vc4_bo_create" =>
          (drv_get_combination(combos, last.format, last.use_flags) = 0
             => last.ret = -Errno.EINVAL)
    /\ \A cs \in TiledRegistries, format \in {DRM_FORMAT_XRGB8888, DRM_FORMAT_NV12},
          use_flags \in {BO_USE_NONE, BO_USE_RENDER_MASK, BO_USE_SCANOUT} :
          LET combo == drv_get_combination(cs, format, use_flags)
              r == vc4_bo_create(NewBo(format, 1, 1), 1, 1, format, use_flags, cs,
                                 kernel, FALSE, ndebug)
          IN (combo = 0 \/ cs[combo].metadata.modifier # DRM_FORMAT_MOD_LINEAR)
                => r.ret = -Errno.EINVAL

C26_Witness ==
    /\ last.op = "vc4_bo_create_with_modifiers"
    /\ last.modifiers = <<DRM_FORMAT_MOD_BROADCOM_VC4_T_TILED>>
    /\ last.modifier = DRM_FORMAT_MOD_LINEAR
    /\ last.ret = 0
    /\ bos[last.bo].live
    /\ bos[last.bo].handles[1] # 0

(***************************************************************************)
(* The magma backend's init and close.  The device import and the          *)
(* connection creation answer with a status; a connection is a handle      *)
(* other than NULL.                                                        *)
(***************************************************************************)
MAGMA_STATUS_OK == 0
MagmaStatuses == {MAGMA_STATUS_OK, -1, -2}
MagmaConnections == {1, 2}

\* magma_init's formats array
MagmaInitFormats ==
    <<DRM_FORMAT_ABGR8888, DRM_FORMAT_ARGB8888, DRM_FORMAT_XBGR8888, DRM_FORMAT_XRGB8888>>

\* metadata.tiling = 0; metadata.priority = 0; metadata.modifier = 0, the
\* value of DRM_FORMAT_MOD_LINEAR
MagmaInitMetadata == [priority |-> 0, tiling |-> 0, modifier |-> DRM_FORMAT_MOD_LINEAR]

\* both failure paths end in "return NULL" from a function returning int
magma_init(p, cs, import_status, connection_status, connection) ==
    IF import_status # MAGMA_STATUS_OK
    THEN [ret |-> NULL, priv |-> p, combos |-> cs]
    ELSE IF connection_status # MAGMA_STATUS_OK
    THEN [ret |-> NULL, priv |-> p, combos |-> cs]
    ELSE [ret |-> 0, priv |-> connection,
          combos |-> drv_add_combinations(cs, MagmaInitFormats, MagmaInitMetadata,
                                          BO_USE_RENDER_MASK \cup BO_USE_SCANOUT)]

\* magma_close releases the connection and clears drv->priv
magma_close(p) == NULL

InitMagmaInit ==
    /\ EmptyDriver
    /\ ndebug = FALSE
    /\ bos = [b \in BoIds |-> NewBo(DRM_FORMAT_XRGB8888, 1, 1)]

\* the backend's init, run once on the new driver instance
MagmaInit ==
    \E import_status \in MagmaStatuses, connection_status \in MagmaStatuses,
       connection \in MagmaConnections :
        LET r == magma_init(priv, combos, import_status, connection_status, connection)
        IN /\ last.op = "none"
           /\ priv' = r.priv
           /\ combos' = r.combos
           /\ last' = [op |-> "magma_init", import_status |-> import_status,
                       connection_status |-> connection_status,
                       connection |-> connection, ret |-> r.ret]
           /\ UNCHANGED <<bos, buffer_table, kernel, mappings, vmas, ndebug, aborted>>

\* the caller sees 0 from init and goes on to create buffers, whether or
\* not a connection was stored
MagmaBoCreateAfterInit ==
    /\ last.op = "magma_init"
    /\ last.ret = 0
    /\ MagmaBoCreate

MagmaClose ==
    /\ last.op \notin {"none", "magma_close"}
    /\ priv' = magma_close(priv)
    /\ last' = [op |-> "magma_close"]
    /\ UNCHANGED <<bos, buffer_table, kernel, mappings, vmas, combos, ndebug, aborted>>

NextMagmaInit == MagmaInit \/ MagmaBoCreateAfterInit \/ MagmaClose

SpecMagmaInit == InitMagmaInit /\ [][NextMagmaInit]_vars

MagmaInitFailed ==
    last.import_status # MAGMA_STATUS_OK \/ last.connection_status # MAGMA_STATUS_OK

\* C27: when the device import or the connection creation fails, magma_init
\* returns a non-zero error, registers no combination and leaves drv->priv
\* unset; it returns 0 only after the connection is stored and ABGR8888,
\* ARGB8888, XBGR8888 and XRGB8888 are registered with the render mask plus
\* SCANOUT.
C27_MagmaInitReportsFailure ==
    last.op = "magma_init" =>
        /\ MagmaInitFailed =>
              /\ last.ret # 0
              /\ combos = <<>>
              /\ priv = NULL
        /\ last.ret = 0 =>
              /\ priv = last.connection
              /\ priv # NULL
              /\ Len(combos) = 4
              /\ \A i \in 1..4 :
                    /\ combos[i].format = MagmaInitFormats[i]
                    /\ combos[i].use_flags = BO_USE_RENDER_MASK \cup BO_USE_SCANOUT

====
